---- MODULE Spec2Model ----
(***************************************************************************)
(* A model of the local orchestration layer of automate-idea-to-social-mcp: *)
(* docker-utils.ts (container start/stop and port allocation),              *)
(* api-client.ts (makeRequest, isUp and the typed accessors) and the tool   *)
(* handlers of index.ts.  Every await of the source is one step of a        *)
(* process; the container runtime, the local ports and the remote service   *)
(* are the environment.                                                     *)
(***************************************************************************)
EXTENDS Integers, Sequences, FiniteSets, TLC

\* The highest port number of the model; it stands for the default maxPort.
MaxPortNum == 3

\* "no port": findAvailablePort's null.
NoPort == 0

Ports == 1..MaxPortNum

\* The logical flows (tool invocations or direct calls) that may be in flight.
Procs == {"a", "b"}

\* An image reference and the fixed suffix, as sequences of characters.
ImageName == <<"p", "/", "a", ":", "1">>
Suffix == <<"-mcp-container">>

RECURSIVE BeforeColon(_)
\* imageName.split(':')[0]
BeforeColon(s) ==
    IF s = <<>> \/ Head(s) = ":" THEN <<>>
    ELSE <<Head(s)>> \o BeforeColon(Tail(s))

\* Only the first '/' replaced.
SlashesToDashes_FirstOnly(s) ==
    [i \in 1..Len(s) |-> IF s[i] = "/" /\ (\A j \in 1..(i - 1) : s[j] # "/")
                          THEN "-" ELSE s[i]]

\* nameWithoutVersion.replace(/\//g, '-')
SlashesToDashes(s) == [i \in 1..Len(s) |-> IF s[i] = "/" THEN "-" ELSE s[i]]

createContainerName(imageName) == SlashesToDashes(BeforeColon(imageName)) \o Suffix

\* createAndRunContainer's null, and its { containerName, port }.
Null == [isNull |-> TRUE]
Handle(name, port) == [isNull |-> FALSE, containerName |-> name, port |-> port]

\* checkDockerStatus's { error, message }, and no status yet.
DockerStatus(error, message) == [error |-> error, message |-> message]
NoStatus == DockerStatus(FALSE, "none")

VARIABLES
    \* ---- the container runtime and the local ports (environment)
    cstate,        \* the container with the derived name: absent, running, exited
    boundPort,     \* the host port the running container publishes (NoPort if none)
    others,        \* ports held by other programs
    lookalike,     \* another container is running whose name contains the derived name
    \* ---- each flow's position and the locals of docker-utils.ts
    pc,            \* the await point the flow is at
    stack,         \* the calls the flow is inside of, outermost first
    argPort,       \* createAndRunContainer's port parameter
    availablePort, \* createAndRunContainer's availablePort
    scanPort,      \* findAvailablePort's loop variable
    scanMax,       \* findAvailablePort's maxPort
    foundPort,     \* findAvailablePort's return value
    handle,        \* createAndRunContainer's return value
    stopped,       \* stopAndRemoveContainer's return value
    dstatus,       \* checkDockerStatus's return value
    \* ---- history of the current call (ghost)
    g,
    lastCall,      \* the createAndRunContainer call that completed last, while
                   \* nothing but createAndRunContainer steps has happened since
    \* ---- the locals of api-client.ts
    req,           \* makeRequest's method and endpoint
    retries,       \* makeRequest's retries (counts down)
    response,      \* makeRequest's response
    timeoutSeconds,\* isUp's timeoutSeconds (counts down)
    upResult,      \* how isUp ended: true, false or throw
    accResult,     \* how a typed accessor ended: a value or a thrown Error
    h,             \* history of the current api-client call (ghost)
    \* ---- index.ts: the task store and the locals of a tool handler
    store,         \* the task ids the task store holds a config for
    pendingSets,   \* taskConfigs.set calls started and not yet completed
    targ,          \* the tool's arguments
    phase,         \* which helper of the handler is running
    apiClient,     \* the port of the endpoint the ApiClient was built for
    payload,       \* the payload the handler returns
    th,            \* history of the current tool invocation (ghost)
    \* ---- persistent-store.ts over node-persist, with its clock
    now,           \* the time
    entries,       \* per key: the stored value and its expiry, if any
    got,           \* what the last get resolved to
    kh,            \* per key: the most recent set or del (ghost)
    \* ---- logger.ts: the log buffer, and what get_logs answered
    logs,          \* the module-level logs array: the lines, in order
    lineCount,     \* the lines recorded so far (ghost; line n is the n-th)
    callMark,      \* lineCount when the latest tool call began (ghost)
    logsPayload,   \* the { logs, total } of the latest get_logs
    logInv,        \* per flow: the lines its tool invocation logged, and the
                   \* lines withLogs put into its error payload
    \* ---- read-env-value.ts
    envCall,       \* the latest readEnvValue call: its inputs and how it ended
    \* ---- the server process and the store's initialization
    procExit,      \* process.exit: whether called, by which handler, with what
    storageInit,   \* storage.init of the PersistentStore constructor: pending, ok, failed
    opLog,         \* the store calls forwarded to node-persist, with storageInit then
    \* ---- createContainerName applied to image references
    nameCall,      \* the latest two calls: each image and the name it got
    \* ---- tests/mcp-client.cjs: McpClient and the server it spawned
    process,       \* this.process: null or the spawned child
    child,         \* the spawned server: none, running, killed, exited
    messageId,     \* this.messageId
    pendingRequests, \* the ids this.pendingRequests holds
    connected,     \* this.connected
    initializing,  \* the id of the request initialize() awaits (0: none)
    timers,        \* the ids whose setTimeout has not fired yet
    promise        \* per id: the state of the promise sendRequest returned

dockerEnv == <<cstate, boundPort, others, lookalike>>
dockerLocals == <<argPort, availablePort, scanPort, scanMax, foundPort, handle, stopped,
                  dstatus>>
dockerGhost == <<g, lastCall>>
dockerVarsButFlow == <<dockerEnv, dockerLocals, dockerGhost>>
dockerVars == <<dockerEnv, pc, stack, dockerLocals, dockerGhost>>

apiLocals == <<req, retries, response, timeoutSeconds, upResult, accResult>>
apiVars == <<apiLocals, h>>

toolLocals == <<targ, phase, apiClient, payload>>
storeVars == <<store, pendingSets>>
kvVars == <<now, entries, got, kh>>
logVars == <<logs, lineCount, callMark, logsPayload, logInv>>
\* The state of the modules that stand on their own.
procVars == <<procExit, storageInit, opLog>>
mcpVars == <<process, child, messageId, pendingRequests, connected, initializing,
             timers, promise>>
clientVars == <<nameCall, mcpVars>>
otherVars == <<logVars, envCall, procVars, clientVars>>
toolVars == <<storeVars, toolLocals, th, kvVars, otherVars>>

vars == <<dockerVars, apiVars, toolVars>>

\* What the steps of docker-utils.ts, and those of api-client.ts, leave alone.
notDocker == <<apiVars, toolVars>>
notApi == <<dockerVarsButFlow, toolVars>>

\* ------------------------------------------------------------------------
\* The ghost record of a call in progress.
NoCall == [none |-> TRUE]

InitG == [runs |-> 0,              \* `docker run` commands issued by this call
          probed |-> FALSE,        \* this call probed a port (isPortAvailable)
          postCheck |-> "none",    \* isContainerRunning's answer after the run
          runFailed |-> FALSE,     \* the run command threw
          envQuiet |-> TRUE,       \* nothing else changed the runtime or the ports
          execOK |-> TRUE,         \* no shell command of this call failed
          notRunAtStart |-> FALSE, \* the container was not running at the call
          occAtStart |-> {},       \* the occupied ports at the call
          startPort |-> NoPort,    \* findAvailablePort's startPort argument
          pred |-> NoCall,         \* the call right before, if nothing came between
          thrown |-> FALSE,        \* an exception left one of this call's try blocks
          found |-> FALSE,         \* the first isContainerRunning check answered true
          installedOK |-> FALSE,   \* `docker --version` succeeded
          daemonChecked |-> FALSE, \* `docker info` was executed
          daemonOK |-> FALSE]      \* `docker info` succeeded

\* ------------------------------------------------------------------------
\* The environment: the ports in use, and what `docker ps` and a bind see.
Occupied == others \cup (IF cstate = "running" THEN {boundPort} ELSE {})

\* A throwaway listener binds the port: true iff no one holds it.
isPortAvailable(port) == port \notin Occupied

\* `docker ps --filter name=.. --filter status=running`, then includes(name):
\* both match any running container whose name contains the derived name.
\* A failing command is caught and answers false.
isContainerRunning(execOk) == execOk /\ (cstate = "running" \/ lookalike)

ContainerName == createContainerName(ImageName)

Escapes_Rethrows(failed) == failed

\* Does the failure of an awaited shell command leave the function that
\* awaited it?  Every execAsync sits in a try whose catch returns a value
\* (isDockerInstalled, isDockerRunning, isContainerRunning, runContainer) or
\* ignores the error (the stop command).
Escapes(failed) == FALSE

Top(p) == IF stack[p] = <<>> THEN "none" ELSE stack[p][Len(stack[p])]
Caller(p) == IF Len(stack[p]) < 2 THEN "none" ELSE stack[p][Len(stack[p]) - 1]
Pop(s) == SubSeq(s, 1, Len(s) - 1)

\* Something other than the calls' own steps touched the runtime or the ports.
Disturbed(gg, except) ==
    [q \in Procs |-> IF q \in except \/ pc[q] = "idle" THEN gg[q]
                     ELSE [gg[q] EXCEPT !.envQuiet = FALSE]]

\* A call's locals and history end with the call.
ForgetLocals(p) ==
    /\ argPort' = [argPort EXCEPT ![p] = NoPort]
    /\ availablePort' = [availablePort EXCEPT ![p] = NoPort]
    /\ scanPort' = [scanPort EXCEPT ![p] = NoPort]
    /\ scanMax' = [scanMax EXCEPT ![p] = NoPort]
    /\ foundPort' = [foundPort EXCEPT ![p] = NoPort]
    /\ handle' = [handle EXCEPT ![p] = Null]
    /\ stopped' = [stopped EXCEPT ![p] = FALSE]
    /\ dstatus' = [dstatus EXCEPT ![p] = NoStatus]
    /\ g' = [g EXCEPT ![p] = InitG]

\* ---- environment steps
Occupy(q) ==
    /\ q \in Ports \ Occupied
    /\ others' = others \cup {q}
    /\ g' = Disturbed(g, {})
    /\ lastCall' = NoCall
    /\ UNCHANGED <<cstate, boundPort, pc, stack, dockerLocals>>
    /\ UNCHANGED notDocker
    /\ UNCHANGED lookalike

Release(q) ==
    /\ q \in others
    /\ others' = others \ {q}
    /\ g' = Disturbed(g, {})
    /\ lastCall' = NoCall
    /\ UNCHANGED <<cstate, boundPort, pc, stack, dockerLocals>>
    /\ UNCHANGED notDocker
    /\ UNCHANGED lookalike

\* The container exits on its own (a crash loop after an exit-0 start).
Crash ==
    /\ cstate = "running"
    /\ cstate' = "exited"
    /\ boundPort' = NoPort
    /\ g' = Disturbed(g, {})
    /\ lastCall' = NoCall
    /\ UNCHANGED <<others, pc, stack, dockerLocals>>
    /\ UNCHANGED notDocker
    /\ UNCHANGED lookalike

\* Someone removes the exited container (docker rm, docker system prune).
ExternalRemove ==
    /\ cstate = "exited"
    /\ cstate' = "absent"
    /\ g' = Disturbed(g, {})
    /\ lastCall' = NoCall
    /\ UNCHANGED <<boundPort, others, pc, stack, dockerLocals>>
    /\ UNCHANGED notDocker
    /\ UNCHANGED lookalike

\* ---- findAvailablePort(startPort, maxPort)
EnterFind(p, startPort, maxPort) ==
    /\ pc' = [pc EXCEPT ![p] = "f_loop"]
    /\ stack' = [stack EXCEPT ![p] = Append(@, "find")]
    /\ scanPort' = [scanPort EXCEPT ![p] = startPort]
    /\ scanMax' = [scanMax EXCEPT ![p] = maxPort]

ScanTurn_StopsBeforeMax(port, maxPort) ==
    IF port >= maxPort THEN NoPort
    ELSE IF isPortAvailable(port) THEN port
    ELSE -1

\* The value one turn of the loop settles on: NoPort past maxPort, the port if
\* it is available, and "go on" (-1) otherwise.
ScanTurn(port, maxPort) ==
    IF port > maxPort THEN NoPort
    ELSE IF isPortAvailable(port) THEN port
    ELSE -1

ScanStep(p) ==
    /\ pc[p] = "f_loop"
    /\ LET t == ScanTurn(scanPort[p], scanMax[p]) IN
       IF t = -1
       THEN /\ scanPort' = [scanPort EXCEPT ![p] = @ + 1]
            /\ g' = [g EXCEPT ![p].probed = TRUE]
            /\ UNCHANGED <<pc, stack, foundPort>>
       ELSE /\ foundPort' = [foundPort EXCEPT ![p] = t]
            /\ pc' = [pc EXCEPT ![p] = IF Caller(p) = "create" THEN "c_found" ELSE "f_ret"]
            /\ stack' = [stack EXCEPT ![p] = Pop(@)]
            /\ g' = [g EXCEPT ![p].probed = (t # NoPort) \/ @]
            /\ UNCHANGED scanPort
    /\ UNCHANGED <<dockerEnv, argPort, availablePort, scanMax, handle, stopped, dstatus,
                   lastCall>>
    /\ UNCHANGED notDocker

CallFind(p, startPort, maxPort) ==
    /\ pc[p] = "idle"
    /\ EnterFind(p, startPort, maxPort)
    /\ g' = [g EXCEPT ![p] = [InitG EXCEPT !.occAtStart = Occupied,
                                           !.startPort = startPort]]
    /\ lastCall' = NoCall
    /\ UNCHANGED <<dockerEnv, argPort, availablePort, foundPort, handle, stopped, dstatus>>
    /\ UNCHANGED notDocker

ReturnFind(p) ==
    /\ pc[p] = "f_ret"
    /\ pc' = [pc EXCEPT ![p] = "idle"]
    /\ ForgetLocals(p)
    /\ UNCHANGED <<dockerEnv, stack, lastCall>>
    /\ UNCHANGED notDocker

\* ---- createAndRunContainer(imageName, port)
EnterCreate(p, base, port) ==
    /\ pc' = [pc EXCEPT ![p] = "c_check"]
    /\ stack' = [stack EXCEPT ![p] = Append(base, "create")]
    /\ argPort' = [argPort EXCEPT ![p] = port]
    /\ g' = [g EXCEPT ![p] = [InitG EXCEPT !.notRunAtStart = (cstate # "running"),
                                           !.occAtStart = Occupied,
                                           !.pred = lastCall]]

CallCreate(p, port) ==
    /\ pc[p] = "idle"
    /\ EnterCreate(p, stack[p], port)
    /\ UNCHANGED <<dockerEnv, availablePort, scanPort, scanMax, foundPort, handle,
                   stopped, dstatus, lastCall>>
    /\ UNCHANGED notDocker

RunningResult_BoundPort(port) == Handle(ContainerName, boundPort)

\* return { containerName, port } for a container found running.
RunningResult(port) == Handle(ContainerName, port)

CheckAdmitted_Serialized(p) ==
    \A q \in Procs \ {p} : pc[q] \notin {"c_probe", "f_loop", "c_found", "c_run", "c_settle"}

\* What a call waits for before its is-running check: nothing.  There is no
\* lock, queue or in-flight record around the check and the start.
CheckAdmitted(p) == TRUE

\* Step 2: is the container already running?
CheckRunning(p) ==
    /\ pc[p] = "c_check"
    /\ CheckAdmitted(p)
    /\ \E execOk \in BOOLEAN :
         /\ IF isContainerRunning(execOk)
            THEN /\ handle' = [handle EXCEPT ![p] = RunningResult(argPort[p])]
                 /\ pc' = [pc EXCEPT ![p] = "c_ret"]
            ELSE /\ pc' = [pc EXCEPT ![p] = "c_probe"]
                 /\ UNCHANGED handle
         /\ g' = [g EXCEPT ![p].execOK = @ /\ execOk,
                           ![p].thrown = @ \/ Escapes(~execOk),
                           ![p].found = isContainerRunning(execOk)]
    /\ UNCHANGED <<dockerEnv, stack, argPort, availablePort, scanPort, scanMax,
                   foundPort, stopped, dstatus, lastCall>>
    /\ UNCHANGED notDocker

ScanStart_SkipsOne(port) == port + 2

\* findAvailablePort(port + 1)
ScanStart(port) == port + 1

\* Step 3: is the desired port available?  If not, scan from port + 1.
ProbePort(p) ==
    /\ pc[p] = "c_probe"
    /\ IF isPortAvailable(argPort[p])
       THEN /\ availablePort' = [availablePort EXCEPT ![p] = argPort[p]]
            /\ pc' = [pc EXCEPT ![p] = "c_run"]
            /\ UNCHANGED <<stack, scanPort, scanMax>>
       ELSE /\ EnterFind(p, ScanStart(argPort[p]), MaxPortNum)
            /\ UNCHANGED availablePort
    /\ g' = [g EXCEPT ![p].probed = TRUE,
                      ![p].startPort = ScanStart(argPort[p])]
    /\ UNCHANGED <<dockerEnv, argPort, foundPort, handle, stopped, dstatus, lastCall>>
    /\ UNCHANGED notDocker

\* foundPort === null returns null; otherwise availablePort = foundPort.
AfterFind(p) ==
    /\ pc[p] = "c_found"
    /\ IF foundPort[p] = NoPort
       THEN /\ handle' = [handle EXCEPT ![p] = Null]
            /\ pc' = [pc EXCEPT ![p] = "c_ret"]
            /\ UNCHANGED availablePort
       ELSE /\ availablePort' = [availablePort EXCEPT ![p] = foundPort[p]]
            /\ pc' = [pc EXCEPT ![p] = "c_run"]
            /\ UNCHANGED handle
    /\ UNCHANGED <<dockerEnv, stack, argPort, scanPort, scanMax, foundPort, stopped, dstatus,
                   dockerGhost>>
    /\ UNCHANGED notDocker

\* What `docker run --name .. -p port:port -d` does to the runtime: the name
\* must be unused; with the port taken the container is created and not started.
RunSucceeds(execOk, port) == execOk /\ cstate = "absent" /\ port \notin Occupied

RunEffect(execOk, port) ==
    IF execOk /\ cstate = "absent"
    THEN IF port \notin Occupied THEN <<"running", port>> ELSE <<"exited", NoPort>>
    ELSE <<cstate, boundPort>>

\* Step 4, first half (runContainer): the run command.  A failing command is
\* caught: runContainer answers false and createAndRunContainer null.
RunCommand(p) ==
    /\ pc[p] = "c_run"
    /\ \E execOk \in BOOLEAN :
         LET ok == RunSucceeds(execOk, availablePort[p])
             eff == RunEffect(execOk, availablePort[p])
         IN /\ cstate' = eff[1]
            /\ boundPort' = eff[2]
            /\ IF ok
               THEN /\ pc' = [pc EXCEPT ![p] = "c_settle"]
                    /\ UNCHANGED handle
               ELSE /\ pc' = [pc EXCEPT ![p] = "c_ret"]
                    /\ handle' = [handle EXCEPT ![p] = Null]
            /\ g' = [Disturbed(g, {p}) EXCEPT ![p].runs = @ + 1,
                                              ![p].runFailed = ~ok,
                                              ![p].execOK = @ /\ execOk,
                                              ![p].thrown = @ \/ Escapes(~execOk)]
    /\ UNCHANGED <<others, stack, argPort, availablePort, scanPort, scanMax, foundPort,
                   stopped, dstatus, lastCall>>
    /\ UNCHANGED notDocker
    /\ UNCHANGED lookalike

CreateResult_Unverified(success, port) == Handle(ContainerName, port)

\* The answer createAndRunContainer gives for runContainer's success.
CreateResult(success, port) == IF success THEN Handle(ContainerName, port) ELSE Null

\* Step 4, second half: after the settle delay, is it actually running?
Settle(p) ==
    /\ pc[p] = "c_settle"
    /\ \E execOk \in BOOLEAN :
         LET success == isContainerRunning(execOk) IN
         /\ handle' = [handle EXCEPT ![p] = CreateResult(success, availablePort[p])]
         /\ g' = [g EXCEPT ![p].postCheck = IF success THEN "true" ELSE "false",
                           ![p].execOK = @ /\ execOk,
                           ![p].thrown = @ \/ Escapes(~execOk)]
    /\ pc' = [pc EXCEPT ![p] = "c_ret"]
    /\ UNCHANGED <<dockerEnv, stack, argPort, availablePort, scanPort, scanMax,
                   foundPort, stopped, dstatus, lastCall>>
    /\ UNCHANGED notDocker

\* The record kept of a completed call: kept when the call began with the
\* container not running, returned a handle, and nothing else changed the
\* runtime or the ports while it ran.
CallRecord(p) ==
    IF g[p].notRunAtStart /\ g[p].envQuiet /\ g[p].execOK /\ handle[p] # Null
    THEN [none |-> FALSE, port |-> argPort[p], handle |-> handle[p]]
    ELSE NoCall

ReturnCreate(p) ==
    /\ pc[p] = "c_ret"
    /\ Caller(p) = "none"
    /\ pc' = [pc EXCEPT ![p] = "idle"]
    /\ stack' = [stack EXCEPT ![p] = Pop(@)]
    /\ lastCall' = CallRecord(p)
    /\ ForgetLocals(p)
    /\ UNCHANGED dockerEnv
    /\ UNCHANGED notDocker

\* ---- stopAndRemoveContainer(imageName)
CallStop(p) ==
    /\ pc[p] = "idle"
    /\ pc' = [pc EXCEPT ![p] = "s_check"]
    /\ stack' = [stack EXCEPT ![p] = Append(@, "stop")]
    /\ g' = [Disturbed(g, {p}) EXCEPT ![p] = [InitG EXCEPT !.notRunAtStart = (cstate # "running")]]
    /\ lastCall' = NoCall
    /\ UNCHANGED <<dockerEnv, dockerLocals>>
    /\ UNCHANGED notDocker

StopCheck(p) ==
    /\ pc[p] = "s_check"
    /\ \E execOk \in BOOLEAN :
         /\ IF ~isContainerRunning(execOk)
            THEN /\ stopped' = [stopped EXCEPT ![p] = TRUE]
                 /\ pc' = [pc EXCEPT ![p] = "s_ret"]
            ELSE /\ pc' = [pc EXCEPT ![p] = "s_stop"]
                 /\ UNCHANGED stopped
         /\ g' = [g EXCEPT ![p].execOK = @ /\ execOk,
                           ![p].thrown = @ \/ Escapes(~execOk)]
    /\ UNCHANGED <<dockerEnv, stack, argPort, availablePort, scanPort, scanMax,
                   foundPort, handle, dstatus, lastCall>>
    /\ UNCHANGED notDocker

\* `docker stop name && docker rm name`: how far it got.  Errors are ignored.
StopEffect(outcome) ==
    IF cstate = "absent" \/ outcome = "none" THEN cstate
    ELSE IF outcome = "stopped" THEN "exited"
    ELSE "absent"

StopCommand(p) ==
    /\ pc[p] = "s_stop"
    /\ \E outcome \in {"none", "stopped", "removed"} :
         /\ cstate' = StopEffect(outcome)
         /\ boundPort' = IF cstate' = "running" THEN boundPort ELSE NoPort
         /\ g' = [Disturbed(g, {p}) EXCEPT ![p].runs = @ + 1,
                                           ![p].execOK = @ /\ (outcome = "removed"),
                                           ![p].thrown = @ \/ Escapes(~(outcome = "removed"))]
    /\ pc' = [pc EXCEPT ![p] = "s_verify"]
    /\ UNCHANGED <<others, stack, dockerLocals, lastCall>>
    /\ UNCHANGED notDocker
    /\ UNCHANGED lookalike

\* After the delay: return !(await isContainerRunning(containerName)).
StopVerify(p) ==
    /\ pc[p] = "s_verify"
    /\ \E execOk \in BOOLEAN :
         /\ stopped' = [stopped EXCEPT ![p] = ~isContainerRunning(execOk)]
         /\ g' = [g EXCEPT ![p].execOK = @ /\ execOk,
                           ![p].thrown = @ \/ Escapes(~execOk)]
    /\ pc' = [pc EXCEPT ![p] = "s_ret"]
    /\ UNCHANGED <<dockerEnv, stack, argPort, availablePort, scanPort, scanMax,
                   foundPort, handle, dstatus, lastCall>>
    /\ UNCHANGED notDocker

ReturnStop(p) ==
    /\ pc[p] = "s_ret"
    /\ Caller(p) = "none"
    /\ pc' = [pc EXCEPT ![p] = "idle"]
    /\ stack' = [stack EXCEPT ![p] = Pop(@)]
    /\ ForgetLocals(p)
    /\ UNCHANGED <<dockerEnv, lastCall>>
    /\ UNCHANGED notDocker

\* ---- checkDockerStatus()
NotInstalled == DockerStatus(TRUE, "Docker is not installed on this system")
NotRunning == DockerStatus(TRUE, "Docker is installed but not running")
StatusOK == DockerStatus(FALSE, "Docker is installed and running successfully")

\* isDockerInstalled / isDockerRunning: `docker --version` / `docker info`
\* succeeded; a failing command is caught and answers false.
isDockerInstalled(execOk) == execOk
isDockerRunning(execOk) == execOk

CallCheckDocker(p) ==
    /\ pc[p] = "idle"
    /\ pc' = [pc EXCEPT ![p] = "d_installed"]
    /\ stack' = [stack EXCEPT ![p] = Append(@, "checkDockerStatus")]
    /\ g' = [g EXCEPT ![p] = InitG]
    /\ UNCHANGED <<dockerEnv, dockerLocals, lastCall>>
    /\ UNCHANGED notDocker

DaemonCheckNeeded_Always(installed) == TRUE

\* if (!installed) return { error: true, ... } comes before the daemon check.
DaemonCheckNeeded(installed) == installed

\* const installed = await isDockerInstalled()
CheckInstalled(p) ==
    /\ pc[p] = "d_installed"
    /\ \E execOk \in BOOLEAN :
         LET installed == isDockerInstalled(execOk) IN
         /\ IF DaemonCheckNeeded(installed)
            THEN /\ pc' = [pc EXCEPT ![p] = "d_daemon"]
                 /\ UNCHANGED dstatus
            ELSE /\ pc' = [pc EXCEPT ![p] = "d_ret"]
                 /\ dstatus' = [dstatus EXCEPT ![p] = NotInstalled]
         /\ g' = [g EXCEPT ![p].installedOK = execOk,
                           ![p].execOK = @ /\ execOk,
                           ![p].thrown = @ \/ Escapes(~execOk)]
    /\ UNCHANGED <<dockerEnv, stack, argPort, availablePort, scanPort, scanMax,
                   foundPort, handle, stopped, lastCall>>
    /\ UNCHANGED notDocker

\* const running = await isDockerRunning()
CheckDaemon(p) ==
    /\ pc[p] = "d_daemon"
    /\ \E execOk \in BOOLEAN :
         /\ dstatus' = [dstatus EXCEPT ![p] =
                          IF isDockerRunning(execOk) THEN StatusOK ELSE NotRunning]
         /\ g' = [g EXCEPT ![p].daemonChecked = TRUE,
                           ![p].daemonOK = execOk,
                           ![p].execOK = @ /\ execOk,
                           ![p].thrown = @ \/ Escapes(~execOk)]
    /\ pc' = [pc EXCEPT ![p] = "d_ret"]
    /\ UNCHANGED <<dockerEnv, stack, argPort, availablePort, scanPort, scanMax,
                   foundPort, handle, stopped, lastCall>>
    /\ UNCHANGED notDocker

ReturnCheckDocker(p) ==
    /\ pc[p] = "d_ret"
    /\ Caller(p) = "none"
    /\ pc' = [pc EXCEPT ![p] = "idle"]
    /\ stack' = [stack EXCEPT ![p] = Pop(@)]
    /\ ForgetLocals(p)
    /\ UNCHANGED <<dockerEnv, lastCall>>
    /\ UNCHANGED notDocker

\* ========================================================================
\* api-client.ts

\* makeRequest's default retries, and the retries createTask and _isUp pass.
DefaultRetries == 2
NoRetries == 0

\* The largest retries and timeoutSeconds a direct call is tried with.
MaxRetries == 2
MaxTimeout == 2

\* Decoded response bodies.  A body is falsy ('' kept raw, null, 0, false), a
\* plain object (with or without the key the accessor reads), or another
\* truthy value (a raw non-JSON string, an array, a number).
\* An object carries the entry the accessor reads (hasKey), and there the
\* agent names of GET /api/agents or the id of POST /api/tasks.
AgentNames == {"blog", "twitter"}
TaskIds == {"t1", "t2"}
\* The ids the remote service hands out for a created task.
RemoteIds == {"t1"}

Data(shape, hasKey, agents, id) ==
    [shape |-> shape, hasKey |-> hasKey, agents |-> agents, id |-> id,
     status |-> "undefined", tasks |-> <<>>]
FalsyData == Data("falsy", FALSE, {}, "undefined")
ObjectData(hasKey) == Data("object", hasKey, {}, "undefined")
AgentsData(names) == Data("object", TRUE, names, "undefined")
IdData(id) == Data("object", TRUE, {}, id)
OtherData == Data("other", FALSE, {}, "undefined")
NoData == Data("undefined", FALSE, {}, "undefined")

\* A task as the remote service sends it: with a "status" entry or without
\* one; and a task list, given by the status entry of each task in order.
RemoteStatuses == {"undefined", "RUNNING", "SUCCESS"}
TaskData(status) == [ObjectData(TRUE) EXCEPT !.status = status]
TasksData(list) == [ObjectData(TRUE) EXCEPT !.tasks = list]
RemoteTaskLists == {<<>>, <<"RUNNING">>, <<"undefined", "SUCCESS">>, <<"SUCCESS", "RUNNING">>}

Truthy(data) == data.shape \in {"object", "other"}

\* ApiResponse, and the `let response;` not yet assigned.
Undefined == [kind |-> "undefined"]
Resp(success, data, error, statusCode) ==
    [kind |-> "resp", success |-> success, data |-> data, error |-> error,
     statusCode |-> statusCode]

\* How an accessor ends: not yet, with an Error thrown, or with a value.
NoResult == [kind |-> "none", error |-> "none", data |-> NoData]
Thrown(error) == [kind |-> "throw", error |-> error, data |-> NoData]
Value(data) == [kind |-> "value", error |-> "none", data |-> data]

\* What one _makeRequest can resolve to: 2xx with the decoded body, a non-2xx
\* status, or a transport error.
Bodies(request) ==
    {FalsyData, ObjectData(FALSE), OtherData}
    \cup (IF request.endpoint = "/api/agents" THEN {AgentsData(n) : n \in SUBSET AgentNames}
          ELSE IF request.method = "POST" THEN {IdData(id) : id \in RemoteIds}
          ELSE IF request.endpoint = "/api/tasks/<id>" THEN {TaskData(st) : st \in RemoteStatuses}
          ELSE IF request.endpoint = "/api/tasks" THEN {TasksData(l) : l \in RemoteTaskLists}
          ELSE {ObjectData(TRUE)})

TransportResponses(request) ==
    {Resp(TRUE, d, "undefined", 200) : d \in Bodies(request)}
    \cup {Resp(FALSE, NoData, "HTTP 500", 500), Resp(FALSE, NoData, "Request error", 0)}

\* return { success: false } when no attempt was made.
SyntheticFailure == Resp(FALSE, NoData, "undefined", 0)

Accessors == {"getAgentNames", "getAgentConfig", "createTask", "getTasks", "getTask"}

AccessorRequest(acc) ==
    CASE acc = "getAgentNames" -> [method |-> "GET", endpoint |-> "/api/agents"]
      [] acc = "getAgentConfig" -> [method |-> "GET", endpoint |-> "/api/agents/<name>"]
      [] acc = "createTask" -> [method |-> "POST", endpoint |-> "/api/tasks"]
      [] acc = "getTasks" -> [method |-> "GET", endpoint |-> "/api/tasks"]
      [] acc = "getTask" -> [method |-> "GET", endpoint |-> "/api/tasks/<id>"]

AccessorRetries_Default(acc) == DefaultRetries

\* createTask passes retries = 0; the other accessors leave the default.
AccessorRetries(acc) == IF acc = "createTask" THEN NoRetries ELSE DefaultRetries

HealthRequest == [method |-> "GET", endpoint |-> "undefined"]
NoRequest == [method |-> "none", endpoint |-> "none"]

InitH == [mrArg |-> 0,          \* makeRequest's retries argument
          attempts |-> 0,       \* _makeRequest calls of this makeRequest call
          sleeps |-> 0,         \* retryInterval waits of this makeRequest call
          allFailed |-> TRUE,   \* every attempt so far had success = false
          upArg |-> 0,          \* isUp's timeoutSeconds argument
          upProbes |-> 0,       \* _isUp calls of this isUp call
          upOK |-> 0,           \* those that answered true
          upPollSleeps |-> 0,   \* 1-second waits of this isUp call
          upRetrySleeps |-> 0,  \* retryInterval waits inside its probes
          mrCalls |-> 0,        \* makeRequest calls of this accessor call
          last |-> Undefined,   \* the response of the latest attempt
          good |-> Undefined,   \* the first 2xx response with a non-empty body
          afterGood |-> 0]      \* attempts made after that one

ForgetApi(p) ==
    /\ req' = [req EXCEPT ![p] = NoRequest]
    /\ retries' = [retries EXCEPT ![p] = 0]
    /\ response' = [response EXCEPT ![p] = Undefined]
    /\ timeoutSeconds' = [timeoutSeconds EXCEPT ![p] = 0]
    /\ upResult' = [upResult EXCEPT ![p] = "none"]
    /\ accResult' = [accResult EXCEPT ![p] = NoResult]
    /\ h' = [h EXCEPT ![p] = InitH]

\* ---- makeRequest(method, endpoint, data, retries, retryInterval)
RetryLoopTest_Positive(r) == r > 0

\* while (retries-- >= 0)
RetryLoopTest(r) == r >= 0

\* The loop header: the test, then the decrement.
MakeRequestLoop(p, r) ==
    /\ retries' = [retries EXCEPT ![p] = r - 1]
    /\ pc' = [pc EXCEPT ![p] = IF RetryLoopTest(r) THEN "m_send" ELSE "m_end"]

EnterMakeRequest(p, base, request, r) ==
    /\ stack' = [stack EXCEPT ![p] = Append(base, "makeRequest")]
    /\ req' = [req EXCEPT ![p] = request]
    /\ response' = [response EXCEPT ![p] = Undefined]
    /\ MakeRequestLoop(p, r)

CallMakeRequest(p, request, r) ==
    /\ pc[p] = "idle"
    /\ EnterMakeRequest(p, stack[p], request, r)
    /\ h' = [h EXCEPT ![p] = [InitH EXCEPT !.mrArg = r]]
    /\ UNCHANGED <<timeoutSeconds, upResult, accResult>>
    /\ UNCHANGED notApi

\* if (response.success && response?.data) return response
Meaningful(resp) == resp.success /\ Truthy(resp.data)

\* One attempt: response = await this._makeRequest(...).
SendAttempt(p) ==
    /\ pc[p] = "m_send"
    /\ \E resp \in TransportResponses(req[p]) :
         /\ response' = [response EXCEPT ![p] = resp]
         /\ pc' = [pc EXCEPT ![p] = IF Meaningful(resp) THEN "m_ret" ELSE "m_sleep"]
         /\ h' = [h EXCEPT ![p].attempts = @ + 1,
                           ![p].allFailed = @ /\ ~resp.success,
                           ![p].last = resp,
                           ![p].afterGood = IF h[p].good # Undefined THEN @ + 1 ELSE @,
                           ![p].good = IF @ = Undefined /\ resp.success /\ Truthy(resp.data)
                                       THEN resp ELSE @]
    /\ UNCHANGED <<stack, req, retries, timeoutSeconds, upResult, accResult>>
    /\ UNCHANGED notApi

\* await new Promise(resolve => setTimeout(resolve, retryInterval)), then the
\* loop header again.
RetrySleep(p) ==
    /\ pc[p] = "m_sleep"
    /\ MakeRequestLoop(p, retries[p])
    /\ h' = [h EXCEPT ![p].sleeps = @ + 1,
                      ![p].upRetrySleeps = IF Caller(p) = "isUp" THEN @ + 1 ELSE @]
    /\ UNCHANGED <<stack, req, response, timeoutSeconds, upResult, accResult>>
    /\ UNCHANGED notApi

FinalResponse_Synthetic(resp) == SyntheticFailure

\* After the loop: if (!response) return { success: false }; return response.
FinalResponse(resp) == IF resp = Undefined THEN SyntheticFailure ELSE resp

EndMakeRequest(p) ==
    /\ pc[p] = "m_end"
    /\ response' = [response EXCEPT ![p] = FinalResponse(@)]
    /\ pc' = [pc EXCEPT ![p] = "m_ret"]
    /\ UNCHANGED <<stack, req, retries, timeoutSeconds, upResult, accResult, h>>
    /\ UNCHANGED notApi

ReturnMakeRequest(p) ==
    /\ pc[p] = "m_ret"
    /\ Caller(p) = "none"
    /\ pc' = [pc EXCEPT ![p] = "idle"]
    /\ stack' = [stack EXCEPT ![p] = Pop(@)]
    /\ ForgetApi(p)
    /\ UNCHANGED notApi

\* ---- isUp(timeoutSeconds) and _isUp()
IsUpLoopTest_Positive(t) == t > 0

\* while ((timeoutSeconds--) >= 0)
IsUpLoopTest(t) == t >= 0

\* The loop header: a probe (_isUp calls makeRequest('GET', undefined, null, 0))
\* if the test passes, else `return false`.  base is the stack inside isUp.
IsUpLoop(p, t, base) ==
    /\ timeoutSeconds' = [timeoutSeconds EXCEPT ![p] = t - 1]
    /\ IF IsUpLoopTest(t)
       THEN /\ EnterMakeRequest(p, base, HealthRequest, NoRetries)
            /\ UNCHANGED upResult
       ELSE /\ upResult' = [upResult EXCEPT ![p] = "false"]
            /\ pc' = [pc EXCEPT ![p] = "u_ret"]
            /\ stack' = [stack EXCEPT ![p] = base]
            /\ UNCHANGED <<req, retries, response>>

\* if (timeoutSeconds < 0) throw new Error("Timeout must be a positive number")
EnterIsUp(p, base, t) ==
    /\ IF t < 0
       THEN /\ upResult' = [upResult EXCEPT ![p] = "throw"]
            /\ pc' = [pc EXCEPT ![p] = "u_ret"]
            /\ stack' = [stack EXCEPT ![p] = Append(base, "isUp")]
            /\ timeoutSeconds' = [timeoutSeconds EXCEPT ![p] = t]
            /\ UNCHANGED <<req, retries, response>>
       ELSE IsUpLoop(p, t, Append(base, "isUp"))
    /\ h' = [h EXCEPT ![p] = [InitH EXCEPT !.upArg = t, !.mrArg = NoRetries,
                                           !.upProbes = IF t >= 0 /\ IsUpLoopTest(t)
                                                        THEN 1 ELSE 0]]

CallIsUp(p, t) ==
    /\ pc[p] = "idle"
    /\ EnterIsUp(p, stack[p], t)
    /\ UNCHANGED accResult
    /\ UNCHANGED notApi

\* const isUp = await this._isUp(): response.success of the probe.
AfterProbe(p) ==
    /\ pc[p] = "m_ret"
    /\ Caller(p) = "isUp"
    /\ stack' = [stack EXCEPT ![p] = Pop(@)]
    /\ IF response[p].success
       THEN /\ upResult' = [upResult EXCEPT ![p] = "true"]
            /\ pc' = [pc EXCEPT ![p] = "u_ret"]
       ELSE /\ pc' = [pc EXCEPT ![p] = "u_sleep"]
            /\ UNCHANGED upResult
    /\ h' = [h EXCEPT ![p].upOK = IF response[p].success THEN @ + 1 ELSE @]
    /\ UNCHANGED <<req, retries, response, timeoutSeconds, accResult>>
    /\ UNCHANGED notApi

\* Wait for 1 second before retrying, then the loop header again.
PollSleep(p) ==
    /\ pc[p] = "u_sleep"
    /\ IsUpLoop(p, timeoutSeconds[p], stack[p])
    /\ h' = IF IsUpLoopTest(timeoutSeconds[p])
            THEN [h EXCEPT ![p].upPollSleeps = @ + 1, ![p].upProbes = @ + 1,
                           ![p].attempts = 0, ![p].sleeps = 0, ![p].allFailed = TRUE,
                           ![p].last = Undefined, ![p].good = Undefined,
                           ![p].afterGood = 0]
            ELSE [h EXCEPT ![p].upPollSleeps = @ + 1]
    /\ UNCHANGED accResult
    /\ UNCHANGED notApi

ReturnIsUp(p) ==
    /\ pc[p] = "u_ret"
    /\ Caller(p) = "none"
    /\ pc' = [pc EXCEPT ![p] = "idle"]
    /\ stack' = [stack EXCEPT ![p] = Pop(@)]
    /\ ForgetApi(p)
    /\ UNCHANGED notApi

\* ---- the typed accessors
\* ApiClient.toMap: a Map for a falsy value or a plain object, an Error for
\* anything else.
ToMapThrows(data) == data.shape = "other"

\* What the accessor does with a success response: getTasks maps over the
\* "tasks" entry, the others read their entry (or the whole body).
\* status: map.get("status") || TaskStatuses.PENDING
toTaskStatus(status) == IF status = "undefined" THEN "PENDING" ELSE status

\* ApiClient.toTask, as far as the status goes.
toTask(data) == [data EXCEPT !.status = toTaskStatus(@)]

AccessorOnSuccess(acc, resp) ==
    IF ToMapThrows(resp.data) THEN Thrown("not a Map")
    ELSE IF acc = "getTasks"
         THEN IF ~resp.data.hasKey THEN Thrown("TypeError")
              ELSE Value([resp.data EXCEPT
                            !.tasks = [i \in 1..Len(@) |-> toTaskStatus(@[i])]])
    ELSE IF acc = "getTask" THEN Value(toTask(resp.data))
    ELSE Value(resp.data)

AccessorOutcome_Swallows(acc, resp) == Value(resp.data)

\* if (response.success) { return ... } else { throw new Error(`... ${response?.error}`) }
AccessorOutcome(acc, resp) ==
    IF resp.success THEN AccessorOnSuccess(acc, resp)
    ELSE Thrown(resp.error)

EnterAccessor(p, base, acc) ==
    /\ stack' = [stack EXCEPT ![p] = base \o <<acc, "makeRequest">>]
    /\ req' = [req EXCEPT ![p] = AccessorRequest(acc)]
    /\ response' = [response EXCEPT ![p] = Undefined]
    /\ MakeRequestLoop(p, AccessorRetries(acc))
    /\ h' = [h EXCEPT ![p] = [InitH EXCEPT !.mrArg = AccessorRetries(acc), !.mrCalls = 1]]

CallAccessor(p, acc) ==
    /\ pc[p] = "idle"
    /\ EnterAccessor(p, stack[p], acc)
    /\ UNCHANGED <<timeoutSeconds, upResult, accResult>>
    /\ UNCHANGED notApi

AfterAccessorRequest(p) ==
    /\ pc[p] = "m_ret"
    /\ Caller(p) \in Accessors
    /\ stack' = [stack EXCEPT ![p] = Pop(@)]
    /\ accResult' = [accResult EXCEPT ![p] = AccessorOutcome(Caller(p), response[p])]
    /\ pc' = [pc EXCEPT ![p] = "a_ret"]
    /\ UNCHANGED <<req, retries, response, timeoutSeconds, upResult, h>>
    /\ UNCHANGED notApi

ReturnAccessor(p) ==
    /\ pc[p] = "a_ret"
    /\ Caller(p) = "none"
    /\ pc' = [pc EXCEPT ![p] = "idle"]
    /\ stack' = [stack EXCEPT ![p] = Pop(@)]
    /\ ForgetApi(p)
    /\ UNCHANGED notApi

InitApiVars ==
    /\ req = [p \in Procs |-> NoRequest]
    /\ retries = [p \in Procs |-> 0]
    /\ response = [p \in Procs |-> Undefined]
    /\ timeoutSeconds = [p \in Procs |-> 0]
    /\ upResult = [p \in Procs |-> "none"]
    /\ accResult = [p \in Procs |-> NoResult]
    /\ h = [p \in Procs |-> InitH]

ApiStep(p) ==
    \/ \E r \in (-1)..MaxRetries : CallMakeRequest(p, HealthRequest, r)
    \/ SendAttempt(p)
    \/ RetrySleep(p)
    \/ EndMakeRequest(p)
    \/ ReturnMakeRequest(p)
    \/ \E t \in (-1)..MaxTimeout : CallIsUp(p, t)
    \/ AfterProbe(p)
    \/ PollSleep(p)
    \/ ReturnIsUp(p)
    \/ \E acc \in Accessors : CallAccessor(p, acc)
    \/ AfterAccessorRequest(p)
    \/ ReturnAccessor(p)

\* ========================================================================
\* persistent-store.ts: PersistentStore over node-persist, created with
\* { dir, ttl }.  The expiry rule is node-persist's, taken from its
\* description: each set stamps the entry with now + ttl, and an entry whose
\* ttl has elapsed reads as a miss.

\* The configured ttl, and the last tick of the clock.
Ttl == 2
MaxClock == 4

StoreKeys == {"k"}
StoreValues == {"v1", "v2"}

NoEntry == [present |-> FALSE, value |-> "undefined", expiry |-> 0]
Entry(value, expiry) == [present |-> TRUE, value |-> value, expiry |-> expiry]

NoHistory == [everSet |-> FALSE, setAt |-> 0, value |-> "undefined", deleted |-> FALSE]
NoGet == [key |-> "none", result |-> "none", at |-> 0, hist |-> NoHistory]

Expired_AfterTtl(entry, time) == time > entry.expiry

\* The entry's ttl has elapsed.
Expired(entry, time) == time >= entry.expiry

\* await storage.set(key, value)
Set(k, v) ==
    /\ entries' = [entries EXCEPT ![k] = Entry(v, now + Ttl)]
    /\ kh' = [kh EXCEPT ![k] = [everSet |-> TRUE, setAt |-> now, value |-> v,
                                deleted |-> FALSE]]
    /\ UNCHANGED <<now, got>>
    /\ UNCHANGED <<dockerVars, apiVars, storeVars, toolLocals, th, otherVars>>

\* const value = await storage.get(key); return value
Get(k) ==
    /\ LET hit == entries[k].present /\ ~Expired(entries[k], now)
       IN /\ got' = [key |-> k,
                     result |-> IF hit THEN entries[k].value ELSE "undefined",
                     at |-> now, hist |-> kh[k]]
          /\ entries' = IF hit THEN entries ELSE [entries EXCEPT ![k] = NoEntry]
    /\ UNCHANGED <<now, kh>>
    /\ UNCHANGED <<dockerVars, apiVars, storeVars, toolLocals, th, otherVars>>

\* await storage.del(key)
Del(k) ==
    /\ entries' = [entries EXCEPT ![k] = NoEntry]
    /\ kh' = [kh EXCEPT ![k].deleted = TRUE]
    /\ UNCHANGED <<now, got>>
    /\ UNCHANGED <<dockerVars, apiVars, storeVars, toolLocals, th, otherVars>>

\* Time passes.
Tick ==
    /\ now < MaxClock
    /\ now' = now + 1
    /\ UNCHANGED <<entries, got, kh>>
    /\ UNCHANGED <<dockerVars, apiVars, storeVars, toolLocals, th, otherVars>>

InitKvVars ==
    /\ now = 0
    /\ entries = [k \in StoreKeys |-> NoEntry]
    /\ got = NoGet
    /\ kh = [k \in StoreKeys |-> NoHistory]

\* ========================================================================
\* logger.ts (the log buffer) and the get_logs tool of index.ts

\* The lines recorded in a run of the model.
MaxLines == 6

NoLogs == [logs |-> <<>>, total |-> -1, prevCallAt |-> 0]

\* clearLogs(): logs.length = 0
clearLogs == <<>>

\* log(level, message): logs.push(line)
log(buffer, line) == Append(buffer, line)

\* A tool other than get_logs is called: clearLogs(), then its first logInfo.
OtherToolCall ==
    /\ lineCount < MaxLines
    /\ logs' = log(clearLogs, lineCount + 1)
    /\ lineCount' = lineCount + 1
    /\ callMark' = lineCount
    /\ UNCHANGED logsPayload
    /\ UNCHANGED <<dockerVars, apiVars, storeVars, toolLocals, th, kvVars, clientVars, envCall, logInv,
                   procVars>>

\* That tool, or a helper it awaits, logs a line (logInfo, logError, logThrown).
LogLine ==
    /\ lineCount < MaxLines
    /\ callMark < lineCount
    /\ logs' = log(logs, lineCount + 1)
    /\ lineCount' = lineCount + 1
    /\ UNCHANGED <<callMark, logsPayload>>
    /\ UNCHANGED <<dockerVars, apiVars, storeVars, toolLocals, th, kvVars, clientVars, envCall, logInv,
                   procVars>>

\* get_logs: logInfo("@index. Fetching logs"), then { logs: getLogs(),
\* total: logs.length }.  The handler does not call clearLogs.
GetLogs ==
    /\ lineCount < MaxLines
    /\ logs' = log(logs, lineCount + 1)
    /\ lineCount' = lineCount + 1
    /\ callMark' = lineCount
    /\ logsPayload' = [logs |-> logs', total |-> Len(logs'), prevCallAt |-> callMark]
    /\ UNCHANGED <<dockerVars, apiVars, storeVars, toolLocals, th, kvVars, clientVars, envCall, logInv,
                   procVars>>

\* ---- tool invocations that log and fail, interleaving at their awaits
NoInvocation == [active |-> FALSE, returned |-> FALSE, mine |-> <<>>, embedded |-> <<>>]

\* The handler starts: clearLogs(), then its first logInfo.
InvocationStart(p) ==
    /\ ~logInv[p].active
    /\ lineCount < MaxLines
    /\ logs' = log(clearLogs, lineCount + 1)
    /\ lineCount' = lineCount + 1
    /\ logInv' = [logInv EXCEPT ![p] = [NoInvocation EXCEPT !.active = TRUE,
                                                           !.mine = <<lineCount + 1>>]]
    /\ UNCHANGED <<callMark, logsPayload>>
    /\ UNCHANGED <<dockerVars, apiVars, storeVars, toolLocals, th, kvVars, clientVars, envCall, procVars>>

\* The handler, or a helper it awaited, logs a line.
InvocationLog(p) ==
    /\ logInv[p].active
    /\ lineCount < MaxLines
    /\ logs' = log(logs, lineCount + 1)
    /\ lineCount' = lineCount + 1
    /\ logInv' = [logInv EXCEPT ![p].mine = Append(@, lineCount + 1)]
    /\ UNCHANGED <<callMark, logsPayload>>
    /\ UNCHANGED <<dockerVars, apiVars, storeVars, toolLocals, th, kvVars, clientVars, envCall, procVars>>

\* The handler returns its error payload: withLogs(message, error) embeds
\* getLogs().join('\n').
InvocationFail(p) ==
    /\ logInv[p].active
    /\ logInv' = [logInv EXCEPT ![p].active = FALSE, ![p].returned = TRUE,
                                ![p].embedded = logs]
    /\ UNCHANGED <<logs, lineCount, callMark, logsPayload>>
    /\ UNCHANGED <<dockerVars, apiVars, storeVars, toolLocals, th, kvVars, clientVars, envCall, procVars>>

InitLogVars ==
    /\ logs = <<>>
    /\ lineCount = 0
    /\ callMark = 0
    /\ logsPayload = NoLogs
    /\ logInv = [p \in Procs |-> NoInvocation]

\* ========================================================================
\* read-env-value.ts

\* JavaScript values: undefined, null and strings.
JsUndef == [kind |-> "undefined", str |-> ""]
JsNull == [kind |-> "null", str |-> ""]
Str(chars) == [kind |-> "string", str |-> chars]

EnvKeys == {"A", "B"}
EnvValues == {"", "x", "y"}
LookupKeys == EnvKeys \cup {"C"}
Fallbacks == {JsNull, Str("d"), Str("")}

\* What the file system and dotenv make of the path: no such file, a file
\* readFileSync throws on, content dotenv.parse throws on, or the object
\* dotenv.parse returns (a value for each key it found).
MissingFile == [kind |-> "missing", parsed |-> <<>>]
UnreadableFile == [kind |-> "unreadable", parsed |-> <<>>]
UnparsableFile == [kind |-> "unparsable", parsed |-> <<>>]
ParsedFile(object) == [kind |-> "parsed", parsed |-> object]
EnvFiles ==
    {MissingFile, UnreadableFile, UnparsableFile}
    \cup {ParsedFile(o) : o \in UNION {[ks -> EnvValues] : ks \in SUBSET EnvKeys}}

\* parsed[key]
Member(object, key) == IF key \in DOMAIN object THEN Str(object[key]) ELSE JsUndef

Coalesce_Or(value, fallback) ==
    IF value \in {JsUndef, JsNull, Str("")} THEN fallback ELSE value

\* value ?? fallback
Coalesce(value, fallback) == IF value \in {JsUndef, JsNull} THEN fallback ELSE value

EnvThrown(message, didRead) == [kind |-> "throw", error |-> message, value |-> JsUndef, read |-> didRead]
EnvReturned(value) == [kind |-> "return", error |-> "none", value |-> value, read |-> TRUE]

\* readEnvValue(envFilePath, key, fallback): how it ends, and whether
\* readFileSync was called.
readEnvValue(file, key, fallback) ==
    IF file.kind = "missing" THEN EnvThrown("File not found", FALSE)
    ELSE IF file.kind = "unreadable" THEN EnvThrown("read error", TRUE)
    ELSE IF file.kind = "unparsable" THEN EnvThrown("parse error", TRUE)
    ELSE EnvReturned(Coalesce(Member(file.parsed, key), fallback))

NoEnvCall == [file |-> MissingFile, key |-> "none", fallback |-> JsNull,
              result |-> EnvReturned(JsUndef)]

ReadEnvValue(file, key, fallback) ==
    /\ envCall' = [file |-> file, key |-> key, fallback |-> fallback,
                   result |-> readEnvValue(file, key, fallback)]
    /\ UNCHANGED <<dockerVars, apiVars, storeVars, toolLocals, th, kvVars, clientVars, logVars, procVars>>

\* ========================================================================
\* persistent-store.ts: the constructor and the forwarding of the methods

\* The store calls followed in one run.
MaxOps == 3

StoreOps == {"set", "get", "del"}

\* storage.init(options) settles: resolved, or rejected (the catch logs it).
StorageInitSettles(outcome) ==
    /\ storageInit = "pending"
    /\ storageInit' = outcome
    /\ UNCHANGED <<procExit, opLog>>
    /\ UNCHANGED <<dockerVars, apiVars, storeVars, toolLocals, th, kvVars, clientVars, logVars, envCall>>

\* set / get / del: `await storage.<op>(...)`, whatever became of the init the
\* constructor started and did not await.
StoreCall(op) ==
    /\ Len(opLog) < MaxOps
    /\ opLog' = Append(opLog, [op |-> op, init |-> storageInit])
    /\ UNCHANGED <<procExit, storageInit>>
    /\ UNCHANGED <<dockerVars, apiVars, storeVars, toolLocals, th, kvVars, clientVars, logVars, envCall>>

\* ========================================================================
\* index.ts: the SIGTERM and SIGINT handlers

Signals == {"SIGTERM", "SIGINT"}

NoExit == [done |-> FALSE, code |-> -1, signal |-> "none", stopResult |-> FALSE]

\* process.on(signal, async () => { try { await stopAndRemoveContainer(...) }
SignalReceived(p, sig) ==
    /\ pc[p] = "idle"
    /\ stack[p] = <<>>
    /\ pc' = [pc EXCEPT ![p] = "s_check"]
    /\ stack' = [stack EXCEPT ![p] = <<sig, "stop">>]
    /\ g' = [Disturbed(g, {p}) EXCEPT ![p] = [InitG EXCEPT !.notRunAtStart = (cstate # "running")]]
    /\ lastCall' = NoCall
    /\ UNCHANGED <<dockerEnv, dockerLocals>>
    /\ UNCHANGED notDocker

ExitsAfter_OnlyWhenStopped(result) == result

\* finally { process.exit(0) }: whatever the awaited call did.
ExitsAfter(result) == TRUE

SignalExit(p) ==
    /\ pc[p] = "s_ret"
    /\ Caller(p) \in Signals
    /\ ExitsAfter(stopped[p])
    /\ procExit' = [done |-> TRUE, code |-> 0, signal |-> Caller(p),
                    stopResult |-> stopped[p]]
    /\ pc' = [pc EXCEPT ![p] = "exited"]
    /\ stack' = [stack EXCEPT ![p] = <<>>]
    /\ ForgetLocals(p)
    /\ UNCHANGED <<dockerEnv, lastCall>>
    /\ UNCHANGED <<storageInit, opLog>>
    /\ UNCHANGED <<apiVars, storeVars, toolLocals, th, kvVars, clientVars, logVars, envCall>>

InitProcVars ==
    /\ procExit = NoExit
    /\ storageInit = "pending"
    /\ opLog = <<>>

\* ========================================================================
\* createContainerName as a function of the image reference

\* The image references tried: the strings of up to MaxImageLen characters
\* over a letter, '/' and ':'.
MaxImageLen == 3
ImageChars == {"a", "/", ":"}
Images == UNION {[1..n -> ImageChars] : n \in 0..MaxImageLen}

NoNameCall == [done |-> FALSE]

\* createContainerName(image) and createContainerName(other).
CreateContainerName(image, other) ==
    /\ nameCall = NoNameCall
    /\ nameCall' = [done |-> TRUE, image |-> image, other |-> other,
                    name |-> createContainerName(image),
                    otherName |-> createContainerName(other)]
    /\ UNCHANGED <<dockerVars, apiVars, storeVars, toolLocals, th, kvVars,
                   logVars, envCall, procVars, mcpVars>>

\* ========================================================================
\* tests/mcp-client.cjs: McpClient

\* The requests sent in one run.
MaxRequests == 2
RequestIds == 1..MaxRequests

\* What the server may write on its stdout: a line that parses to a message
\* with any id (0: none or not a message), with or without an error entry,
\* with or without a method.
Messages == [id : 0..MaxRequests, error : BOOLEAN, method : BOOLEAN]

\* resolve(...) or reject(...) of the promise of request id: the first call
\* settles it, later ones do nothing.
SettlePromise(id, outcome) ==
    [promise EXCEPT ![id] = IF @ = "pending" THEN outcome ELSE @]

\* What no step of the client touches.
notMcp == <<dockerVars, apiVars, storeVars, toolLocals, th, kvVars,
            logVars, envCall, procVars, nameCall>>

\* sendRequest(method): the executor of its promise. sendMessage throws when
\* there is no process or its stdin is not writable, which rejects the
\* promise; the entry and the timer stay.
sendRequest(proc, writable) ==
    LET id == messageId + 1
    IN /\ messageId < MaxRequests
       /\ messageId' = id
       /\ pendingRequests' = pendingRequests \cup {id}
       /\ timers' = timers \cup {id}
       /\ promise' = [promise EXCEPT ![id] =
                         IF proc = "child" /\ writable THEN "pending"
                         ELSE "rejected_send"]

\* connect(serverConfig): spawn, then initialize() up to its await.
Connect ==
    /\ process = "null"
    /\ child \in {"none", "exited"}
    /\ process' = "child"
    /\ child' = "running"
    /\ sendRequest("child", TRUE)
    /\ initializing' = messageId + 1
    /\ UNCHANGED connected
    /\ UNCHANGED notMcp

\* initialize() after its await: the notification, then connected = true;
\* nothing of it when the request was rejected or the notification throws.
Initialized ==
    /\ initializing # 0
    /\ promise[initializing] # "pending"
    /\ connected' = IF promise[initializing] = "resolved" /\ process = "child"
                       /\ child = "running"
                    THEN TRUE ELSE connected
    /\ initializing' = 0
    /\ UNCHANGED <<process, child, messageId, pendingRequests, timers, promise>>
    /\ UNCHANGED notMcp

\* listTools, callTool, ...: sendRequest on the client as it is. Once the
\* server has exited its stdin may or may not be writable still.
SendRequest(writable) ==
    /\ (child = "running" => writable)
    /\ sendRequest(process, writable)
    /\ UNCHANGED <<process, child, connected, initializing>>
    /\ UNCHANGED notMcp

\* handleMessage(message)
handleMessage(message) ==
    IF message.id # 0 /\ message.id \in pendingRequests
    THEN /\ pendingRequests' = pendingRequests \ {message.id}
         /\ promise' = SettlePromise(message.id, IF message.error THEN "rejected_error"
                                          ELSE "resolved")
    ELSE UNCHANGED <<pendingRequests, promise>>

\* A line of the server's stdout arrives; a killed server may still write
\* until it has exited.
ServerMessage(message) ==
    /\ child \in {"running", "killed"}
    /\ handleMessage(message)
    /\ UNCHANGED <<process, child, messageId, connected, initializing, timers>>
    /\ UNCHANGED notMcp

\* The callback of sendRequest's setTimeout, timeoutMilliseconds later.
TimerFires(id) ==
    /\ id \in timers
    /\ timers' = timers \ {id}
    /\ IF id \in pendingRequests
       THEN /\ pendingRequests' = pendingRequests \ {id}
            /\ promise' = SettlePromise(id, "rejected_timeout")
       ELSE UNCHANGED <<pendingRequests, promise>>
    /\ UNCHANGED <<process, child, messageId, connected, initializing>>
    /\ UNCHANGED notMcp

\* The server exits: the 'exit' handler.
ServerExit ==
    /\ child \in {"running", "killed"}
    /\ child' = "exited"
    /\ connected' = FALSE
    /\ UNCHANGED <<process, messageId, pendingRequests, initializing, timers, promise>>
    /\ UNCHANGED notMcp

\* disconnect()
Disconnect ==
    /\ process' = "null"
    /\ child' = IF process = "child" /\ child = "running" THEN "killed" ELSE child
    /\ connected' = FALSE
    /\ pendingRequests' = {}
    /\ UNCHANGED <<messageId, initializing, timers, promise>>
    /\ UNCHANGED notMcp

InitMcpVars ==
    /\ process = "null"
    /\ child = "none"
    /\ messageId = 0
    /\ pendingRequests = {}
    /\ connected = FALSE
    /\ initializing = 0
    /\ timers = {}
    /\ promise = [id \in RequestIds |-> "none"]

\* ========================================================================
\* index.ts (the variant with the persistent task store)

\* The port of AIDEAS_PORT, and requireApiClientAndServerReady's default
\* timeoutSeconds (30 in the source).
AideasPort == 1
ReadyTimeout == 1

\* The tools that call the backing service.
Tools == {"list_agents", "get_agent_config", "create_automation_task",
          "get_task_status", "list_tasks"}

NoArgs == [task_id |-> "undefined", agents |-> {}, filter_by_status |-> "undefined"]

\* The filter_by_status values list_tasks is tried with (undefined: no filter).
StatusFilters == {"undefined", "PENDING", "RUNNING"}

ToolArgs(tl) ==
    CASE tl = "create_automation_task" -> {[NoArgs EXCEPT !.agents = a] : a \in SUBSET AgentNames}
      [] tl = "get_task_status" -> {[NoArgs EXCEPT !.task_id = id] : id \in TaskIds}
      [] tl = "list_tasks" -> {[NoArgs EXCEPT !.filter_by_status = f] : f \in StatusFilters}
      [] OTHER -> {NoArgs}

\* The accessor the handler's helper calls once the client is ready.
ToolAccessor(tl, ph) ==
    CASE tl = "list_agents" -> "getAgentNames"
      [] tl = "get_agent_config" -> "getAgentConfig"
      [] tl = "create_automation_task" -> IF ph = "agents" THEN "getAgentNames" ELSE "createTask"
      [] tl = "get_task_status" -> "getTask"
      [] tl = "list_tasks" -> "getTasks"

\* { content: [{ type: "text", text }], isError }
Payload(isError, text, id) ==
    [isError |-> isError, text |-> text, id |-> id, data |-> NoData, total |-> -1]
\* JSON.stringify(value, null, 2) of what the helper returned.
DataPayload(text, id, data) == [Payload(FALSE, text, id) EXCEPT !.data = data]
NoPayload == Payload(FALSE, "none", "undefined")

\* if (filter_by_status) taskList = taskList.filter(task => task.status === filter_by_status)
FilterTasks(taskList, filter) ==
    IF filter = "undefined" THEN taskList
    ELSE SelectSeq(taskList, LAMBDA status : status = filter)

\* { tasks: taskList, total: taskList.length, filter_applied }
TasksPayload(data, filter) ==
    LET taskList == FilterTasks(data.tasks, filter)
    IN [DataPayload("tasks", "undefined", [data EXCEPT !.tasks = taskList])
          EXCEPT !.total = Len(taskList)]

InitTh == [remote |-> NoData,    \* the body the remote service answered the accessor with
          callFailed |-> FALSE, \* the accessor threw
          known |-> FALSE,      \* the task id was in the store at the call
          requires |-> 0,       \* requireApiClientAndServerReady calls so far
          createOK |-> FALSE,   \* createAndRunContainer returned a handle (this require)
          handlePort |-> NoPort,\* the port of that handle
          upTrue |-> FALSE,     \* isUp returned true (this require)
          failed |-> FALSE,     \* this require threw
          fetched |-> {},       \* availableAgents, once getAvailableAgents returned
          posts |-> 0,          \* POST /api/tasks attempts of this invocation
          sets |-> 0,           \* taskConfigs.set calls of this invocation
          prevFailed |-> FALSE] \* a require of the invocation before threw

\* PersistentStore.get is async: what the caller holds is a promise, which
\* settles to the stored config or to undefined.
StoreGet(id) == [kind |-> "promise", settles |-> IF id \in store THEN "config" ELSE "undefined"]
JsUndefined == [kind |-> "undefined", settles |-> "undefined"]

\* !value, for the values a handler tests.
Not(value) == value = JsUndefined

\* The tool the flow is running: the outermost call.
Tool(p) == IF stack[p] = <<>> THEN "none" ELSE stack[p][1]
InTool(p) == Tool(p) \in Tools

\* availableAgents: getAvailableAgents answers [] when anything threw.
AvailableAgents(outcome) == IF outcome.kind = "throw" THEN {} ELSE outcome.data.agents

CreatedId_Placeholder(outcome) ==
    IF outcome.kind = "throw" THEN "t2" ELSE outcome.data.id

\* taskId: runAutomationTask answers null when anything threw, else the "id"
\* entry of the response (undefined when there is none).
CreatedId(outcome) == IF outcome.kind = "throw" THEN "undefined" ELSE outcome.data.id

AgentsValid_NonEmptyOnly(args, outcome) == AvailableAgents(outcome) # {}

\* create_automation_task goes on to runAutomationTask only with a non-empty
\* agent list that includes every requested agent.
AgentsValid(args, outcome) ==
    /\ AvailableAgents(outcome) # {}
    /\ args.agents \subseteq AvailableAgents(outcome)

\* The payload a handler returns for the outcome of its (last) helper.
ToolPayload(tl, ph, args, outcome) ==
    CASE tl = "list_agents" -> Payload(FALSE, "agents", "undefined")
      [] tl = "get_agent_config" ->
           IF outcome.kind = "throw" THEN Payload(TRUE, "Agent not found", "undefined")
           ELSE Payload(FALSE, "agentConfig", "undefined")
      [] tl = "get_task_status" ->
           IF outcome.kind = "throw" THEN Payload(TRUE, "Task not found, ID", args.task_id)
           ELSE DataPayload("task", args.task_id, outcome.data)
      [] tl = "list_tasks" ->
           IF outcome.kind = "throw" THEN Payload(TRUE, "Error listing tasks", "undefined")
           ELSE TasksPayload(outcome.data, args.filter_by_status)
      [] tl = "create_automation_task" /\ ph = "agents" ->
           IF AvailableAgents(outcome) = {} THEN Payload(TRUE, "No agents available", "undefined")
           ELSE Payload(TRUE, "Invalid agents", "undefined")
      [] tl = "create_automation_task" /\ ph = "create" ->
           IF CreatedId(outcome) = "undefined"
           THEN Payload(TRUE, "No task ID was returned", "undefined")
           ELSE Payload(FALSE, "Task created and started", CreatedId(outcome))

\* The handler has its payload.
Finish(p, pl) ==
    /\ pc' = [pc EXCEPT ![p] = "t_ret"]
    /\ stack' = [stack EXCEPT ![p] = <<Tool(p)>>]
    /\ payload' = [payload EXCEPT ![p] = pl]

\* ---- requireApiClientAndServerReady(), from getOrCreateApiClient() on:
\* createAndRunContainer(AIDEAS_IMAGE_NAME, AIDEAS_PORT, ...).
EnterRequire(p, base, past) ==
    /\ EnterCreate(p, Append(base, "require"), AideasPort)
    /\ th' = [th EXCEPT ![p] = [past EXCEPT !.requires = @ + 1, !.createOK = FALSE,
                                            !.handlePort = NoPort, !.upTrue = FALSE,
                                            !.failed = FALSE]]

\* A tool is called.  get_task_status first tests what taskConfigs.get(task_id)
\* handed it, without awaiting it.
CallTool(p, tl, args) ==
    /\ pc[p] = "idle"
    /\ stack[p] = <<>>
    /\ targ' = [targ EXCEPT ![p] = args]
    /\ phase' = [phase EXCEPT ![p] = IF tl = "create_automation_task" THEN "agents" ELSE "call"]
    /\ IF tl = "get_task_status" /\ Not(StoreGet(args.task_id))
       THEN /\ pc' = [pc EXCEPT ![p] = "t_ret"]
            /\ stack' = [stack EXCEPT ![p] = <<tl>>]
            /\ payload' = [payload EXCEPT ![p] = Payload(TRUE, "Task not found", args.task_id)]
            /\ th' = [th EXCEPT ![p] = [InitTh EXCEPT !.known = (args.task_id \in store),
                                                  !.prevFailed = th[p].prevFailed]]
            /\ UNCHANGED <<argPort, g>>
       ELSE /\ EnterRequire(p, <<tl>>, [InitTh EXCEPT !.known = (args.task_id \in store),
                                                  !.prevFailed = th[p].prevFailed])
            /\ UNCHANGED payload
    /\ UNCHANGED <<dockerEnv, availablePort, scanPort, scanMax, foundPort, handle,
                   stopped, dstatus, lastCall, apiVars, storeVars, apiClient>>
    /\ UNCHANGED <<kvVars, otherVars>>

\* const result = await createAndRunContainer(...); if (!result) throw ...;
\* else the client is built for `http://${host}:${result.port}` and isUp is
\* awaited.  A throw reaches the catch of the helper (or of list_tasks).
RequireAfterCreate(p) ==
    /\ pc[p] = "c_ret"
    /\ Caller(p) = "require"
    /\ lastCall' = CallRecord(p)
    /\ ForgetLocals(p)
    /\ IF handle[p] = Null
       THEN /\ Finish(p, ToolPayload(Tool(p), phase[p], targ[p], Thrown("Failed to run container")))
            /\ th' = [th EXCEPT ![p].failed = TRUE]
            /\ UNCHANGED <<apiClient, apiVars>>
       ELSE /\ apiClient' = [apiClient EXCEPT ![p] = handle[p].port]
            /\ th' = [th EXCEPT ![p].createOK = TRUE, ![p].handlePort = handle[p].port]
            /\ EnterIsUp(p, Pop(stack[p]), ReadyTimeout)
            /\ UNCHANGED <<accResult, payload>>
    /\ UNCHANGED <<dockerEnv, storeVars, targ, phase>>
    /\ UNCHANGED <<kvVars, otherVars>>

ReadyToProceed_Always(up) == TRUE

\* if (await apiClient.isUp(timeoutSeconds)) return apiClient
ReadyToProceed(up) == up = "true"

\* The client is ready and the helper calls its accessor, or the throw of
\* "Server is not up" (or isUp's own) reaches the catch.
RequireAfterIsUp(p) ==
    /\ pc[p] = "u_ret"
    /\ Caller(p) = "require"
    /\ IF ReadyToProceed(upResult[p])
       THEN /\ EnterAccessor(p, <<Tool(p)>>, ToolAccessor(Tool(p), phase[p]))
            /\ timeoutSeconds' = [timeoutSeconds EXCEPT ![p] = 0]
            /\ upResult' = [upResult EXCEPT ![p] = "none"]
            /\ th' = [th EXCEPT ![p].upTrue = (upResult[p] = "true")]
            /\ UNCHANGED <<accResult, payload>>
       ELSE /\ Finish(p, ToolPayload(Tool(p), phase[p], targ[p], Thrown("Server is not up")))
            /\ ForgetApi(p)
            /\ th' = [th EXCEPT ![p].failed = TRUE]
    /\ UNCHANGED <<dockerVarsButFlow, storeVars, targ, phase, apiClient>>
    /\ UNCHANGED <<kvVars, otherVars>>

\* The accessor returned or threw.  create_automation_task goes from the
\* agent check to runAutomationTask, and after a task id starts
\* taskConfigs.set(taskId, taskConfig) without awaiting it.
ToolAfterAccessor(p) ==
    /\ pc[p] = "a_ret"
    /\ Caller(p) \in Tools
    /\ ForgetApi(p)
    /\ IF Tool(p) = "create_automation_task" /\ phase[p] = "agents"
          /\ AgentsValid(targ[p], accResult[p])
       THEN /\ phase' = [phase EXCEPT ![p] = "create"]
            /\ EnterRequire(p, <<Tool(p)>>,
                            [th[p] EXCEPT !.fetched = AvailableAgents(accResult[p])])
            /\ UNCHANGED <<payload, pendingSets>>
       ELSE LET creating == Tool(p) = "create_automation_task" /\ phase[p] = "create"
                setting == creating /\ CreatedId(accResult[p]) # "undefined"
            IN
            /\ Finish(p, ToolPayload(Tool(p), phase[p], targ[p], accResult[p]))
            /\ pendingSets' =
                 IF setting THEN pendingSets \cup {CreatedId(accResult[p])}
                 ELSE pendingSets
            /\ th' = [th EXCEPT ![p].remote = response[p].data,
                                ![p].callFailed = (accResult[p].kind = "throw"),
                                ![p].fetched = IF Tool(p) = "create_automation_task"
                                                  /\ phase[p] = "agents"
                                               THEN AvailableAgents(accResult[p]) ELSE @,
                                ![p].posts = IF creating THEN h[p].attempts ELSE @,
                                ![p].sets = IF setting THEN @ + 1 ELSE @]
            /\ UNCHANGED <<phase, argPort, g>>
    /\ UNCHANGED <<dockerEnv, availablePort, scanPort, scanMax, foundPort, handle,
                   stopped, dstatus, lastCall, store, targ, apiClient>>
    /\ UNCHANGED <<kvVars, otherVars>>

ReturnTool(p) ==
    /\ pc[p] = "t_ret"
    /\ pc' = [pc EXCEPT ![p] = "idle"]
    /\ stack' = [stack EXCEPT ![p] = <<>>]
    /\ targ' = [targ EXCEPT ![p] = NoArgs]
    /\ phase' = [phase EXCEPT ![p] = "none"]
    /\ apiClient' = [apiClient EXCEPT ![p] = NoPort]
    /\ payload' = [payload EXCEPT ![p] = NoPayload]
    /\ th' = [th EXCEPT ![p] = [InitTh EXCEPT !.prevFailed = th[p].failed]]
    /\ UNCHANGED <<dockerVarsButFlow, apiVars, storeVars>>
    /\ UNCHANGED <<kvVars, otherVars>>

\* ---- the task store (node-persist)
\* A started set completes: the entry is written with a fresh expiry.
StoreSetCompletes(id) ==
    /\ id \in pendingSets
    /\ pendingSets' = pendingSets \ {id}
    /\ store' = store \cup {id}
    /\ UNCHANGED <<dockerVars, apiVars, toolLocals, th>>
    /\ UNCHANGED <<kvVars, otherVars>>

\* The ttl of an entry elapses.
Expire(id) ==
    /\ id \in store
    /\ store' = store \ {id}
    /\ UNCHANGED <<dockerVars, apiVars, toolLocals, th, pendingSets>>
    /\ UNCHANGED <<kvVars, otherVars>>

InitToolVars ==
    /\ InitKvVars
    /\ InitLogVars
    /\ envCall = NoEnvCall
    /\ InitProcVars
    /\ nameCall = NoNameCall
    /\ InitMcpVars
    /\ store = {}
    /\ pendingSets = {}
    /\ targ = [p \in Procs |-> NoArgs]
    /\ phase = [p \in Procs |-> "none"]
    /\ apiClient = [p \in Procs |-> NoPort]
    /\ payload = [p \in Procs |-> NoPayload]
    /\ th = [p \in Procs |-> InitTh]

ToolStep(p) ==
    \/ \E tl \in Tools : \E args \in ToolArgs(tl) : CallTool(p, tl, args)
    \/ RequireAfterCreate(p)
    \/ RequireAfterIsUp(p)
    \/ ToolAfterAccessor(p)
    \/ ReturnTool(p)

StoreStep ==
    \/ \E id \in TaskIds : StoreSetCompletes(id)
    \/ \E id \in TaskIds : Expire(id)

InitDockerVars ==
    /\ cstate = "absent"
    /\ boundPort = NoPort
    /\ others \in SUBSET Ports
    /\ lookalike \in BOOLEAN
    /\ pc = [p \in Procs |-> "idle"]
    /\ stack = [p \in Procs |-> <<>>]
    /\ argPort = [p \in Procs |-> NoPort]
    /\ availablePort = [p \in Procs |-> NoPort]
    /\ scanPort = [p \in Procs |-> NoPort]
    /\ scanMax = [p \in Procs |-> NoPort]
    /\ foundPort = [p \in Procs |-> NoPort]
    /\ handle = [p \in Procs |-> Null]
    /\ stopped = [p \in Procs |-> FALSE]
    /\ dstatus = [p \in Procs |-> NoStatus]
    /\ g = [p \in Procs |-> InitG]
    /\ lastCall = NoCall

DockerStep(p) ==
    \/ \E port \in Ports : CallCreate(p, port)
    \/ CheckRunning(p)
    \/ ProbePort(p)
    \/ ScanStep(p)
    \/ AfterFind(p)
    \/ RunCommand(p)
    \/ Settle(p)
    \/ ReturnCreate(p)
    \/ CallStop(p)
    \/ StopCheck(p)
    \/ StopCommand(p)
    \/ StopVerify(p)
    \/ ReturnStop(p)
    \/ \E startPort \in 1..(MaxPortNum + 1), maxPort \in 0..MaxPortNum :
           CallFind(p, startPort, maxPort)
    \/ ReturnFind(p)
    \/ CallCheckDocker(p)
    \/ CheckInstalled(p)
    \/ CheckDaemon(p)
    \/ ReturnCheckDocker(p)

DockerEnvStep ==
    \/ \E q \in Ports : Occupy(q)
    \/ \E q \in Ports : Release(q)
    \/ Crash
    \/ ExternalRemove

\* ========================================================================
\* Specifications

InitDocker == InitDockerVars /\ ~lookalike /\ InitApiVars /\ InitToolVars

\* The container orchestration on its own: one flow calling the functions of
\* docker-utils.ts one after the other, with the environment acting between
\* any two awaits.
NextDocker == DockerStep("a") \/ DockerEnvStep

SpecDocker == InitDocker /\ [][NextDocker]_vars

\* The container orchestration where another running container may carry a
\* name that contains the derived name; the ports stay as they are.
InitNames == InitDockerVars /\ InitApiVars /\ InitToolVars

NextNames ==
    \/ DockerStep("a")
    \/ Crash
    \/ ExternalRemove

SpecNames == InitNames /\ [][NextNames]_vars

\* Two flows calling createAndRunContainer and stopAndRemoveContainer for the
\* same image and port (as the tool handlers do), interleaving at their
\* awaits; the ports held by others stay.
InitRace ==
    /\ InitDockerVars
    /\ others \in {{}, {AideasPort}}
    /\ ~lookalike
    /\ InitApiVars
    /\ InitToolVars

RaceStep(p) ==
    \/ CallCreate(p, AideasPort)
    \/ CheckRunning(p)
    \/ ProbePort(p)
    \/ ScanStep(p)
    \/ AfterFind(p)
    \/ RunCommand(p)
    \/ Settle(p)
    \/ ReturnCreate(p)
    \/ CallStop(p)
    \/ StopCheck(p)
    \/ StopCommand(p)
    \/ StopVerify(p)
    \/ ReturnStop(p)

NextRace == \E p \in Procs : RaceStep(p)

SpecRace == InitRace /\ [][NextRace]_vars

\* The API client on its own: one flow calling makeRequest, isUp and the typed
\* accessors, the transport answering each attempt as it likes.
InitApi == InitDockerVars /\ others = {} /\ ~lookalike /\ InitApiVars /\ InitToolVars

NextApi == ApiStep("a")

SpecApi == InitApi /\ [][NextApi]_vars

\* The tool handlers: one invocation at a time, each running the steps of
\* createAndRunContainer, isUp and its accessor, while the container may
\* crash or be removed, and store entries get written and expire.
InitTools ==
    /\ InitDockerVars
    /\ others \in {{}, {AideasPort}, Ports}
    /\ ~lookalike
    /\ InitApiVars
    /\ InitToolVars

\* The steps of the calls a handler is inside of.
ToolFlowStep(p) ==
    \/ CheckRunning(p)
    \/ ProbePort(p)
    \/ ScanStep(p)
    \/ AfterFind(p)
    \/ RunCommand(p)
    \/ Settle(p)
    \/ SendAttempt(p)
    \/ RetrySleep(p)
    \/ EndMakeRequest(p)
    \/ AfterProbe(p)
    \/ PollSleep(p)
    \/ AfterAccessorRequest(p)

NextTools ==
    \/ ToolStep("a")
    \/ ToolFlowStep("a")
    \/ Crash
    \/ ExternalRemove
    \/ StoreStep

SpecTools == InitTools /\ [][NextTools]_vars

\* The task store on its own: sets, gets and dels of a key as time passes.
InitStore == InitDockerVars /\ others = {} /\ ~lookalike /\ InitApiVars /\ InitToolVars

NextStore ==
    \/ \E k \in StoreKeys, v \in StoreValues : Set(k, v)
    \/ \E k \in StoreKeys : Get(k)
    \/ \E k \in StoreKeys : Del(k)
    \/ Tick

SpecStore == InitStore /\ [][NextStore]_vars

\* The log buffer on its own: tool calls one after the other, each clearing
\* and filling the buffer, and get_logs calls between them.
InitLogs == InitDockerVars /\ others = {} /\ ~lookalike /\ InitApiVars /\ InitToolVars

NextLogs ==
    \/ OtherToolCall
    \/ LogLine
    \/ GetLogs

SpecLogs == InitLogs /\ [][NextLogs]_vars

\* The store from its construction on: the init settles at some time (or
\* never), and the methods are called at any time.
NextStoreInit ==
    \/ \E outcome \in {"ok", "failed"} : StorageInitSettles(outcome)
    \/ \E op \in StoreOps : StoreCall(op)

SpecStoreInit == InitLogs /\ [][NextStoreInit]_vars

\* The server until it exits: calls that start and stop the container, then
\* a signal; the container may crash or be removed at any time.
InitShutdown ==
    /\ InitDockerVars
    /\ others \in {{}, {AideasPort}}
    /\ ~lookalike
    /\ InitApiVars
    /\ InitToolVars

NextShutdown ==
    \/ RaceStep("a")
    \/ \E sig \in Signals : SignalReceived("a", sig)
    \/ SignalExit("a")
    \/ Crash
    \/ ExternalRemove

SpecShutdown == InitShutdown /\ [][NextShutdown]_vars

\* Two tool invocations that log and fail, interleaving at their awaits.
NextLogRace ==
    \E p \in Procs :
        \/ InvocationStart(p)
        \/ InvocationLog(p)
        \/ InvocationFail(p)

SpecLogRace == InitLogs /\ [][NextLogRace]_vars

\* readEnvValue on its own: calls with every file, key and fallback.
InitEnv == InitDockerVars /\ others = {} /\ ~lookalike /\ InitApiVars /\ InitToolVars

NextEnv == \E file \in EnvFiles, key \in LookupKeys, fallback \in Fallbacks :
               ReadEnvValue(file, key, fallback)

SpecEnv == InitEnv /\ [][NextEnv]_vars

\* createContainerName on every pair of image references.
NextName == \E image \in Images, other \in Images : CreateContainerName(image, other)

SpecName == InitEnv /\ [][NextName]_vars

\* The test client: requests, server messages, server exit and disconnect
\* in any order. Node runs every timer callback that is due and every
\* continuation of a settled promise.
NextClient ==
    \/ Connect
    \/ Initialized
    \/ \E writable \in BOOLEAN : SendRequest(writable)
    \/ \E message \in Messages : ServerMessage(message)
    \/ \E id \in RequestIds : TimerFires(id)
    \/ ServerExit
    \/ Disconnect

SpecClient == InitEnv /\ [][NextClient]_vars

FairSpecClient ==
    /\ SpecClient
    /\ \A id \in RequestIds : WF_vars(TimerFires(id))
    /\ WF_vars(Initialized)

\* ------------------------------------------------------------------------
\* Properties of the tool handlers.

\* The flow is inside the makeRequest of a typed accessor: an API request is
\* being sent (or retried, or has just been answered).
InApiRequest(p) == InTool(p) /\ Top(p) = "makeRequest" /\ Caller(p) \in Accessors

\* C2: in a tool invocation an API request (agents, agent config, create
\* task, get task, list tasks) is in progress only if, in the
\* requireApiClientAndServerReady call right before it, createAndRunContainer
\* returned a handle and isUp returned true on the client built for that
\* handle's port; once either step has failed the handler is at its return
\* with an API request neither in progress nor to come.
C2_RequestOnlyWhenReady ==
    \A p \in Procs :
        /\ (InApiRequest(p) =>
              /\ th[p].createOK
              /\ th[p].upTrue
              /\ apiClient[p] # NoPort
              /\ apiClient[p] = th[p].handlePort)
        /\ (th[p].failed => pc[p] = "t_ret" /\ stack[p] = <<Tool(p)>>)

C2_CreateTaskRequestSent ==
    \E p \in Procs :
        /\ InApiRequest(p)
        /\ pc[p] = "m_send"
        /\ req[p] = AccessorRequest("createTask")
        /\ th[p].requires = 2

\* C3: get_task_status for a task id that is not in the task store sends no
\* request for that id to the remote service and returns the error payload
\* "Task '<id>' not found".
C3_UnknownIdFailsClosed ==
    \A p \in Procs :
        (Tool(p) = "get_task_status" /\ ~th[p].known)
        => /\ ~InApiRequest(p)
           /\ (pc[p] = "t_ret" =>
                 payload[p] = Payload(TRUE, "Task not found", targ[p].task_id))

\* ------------------------------------------------------------------------
\* Properties of the container orchestration.

\* The lowest port of from..to that is not in occ, NoPort if there is none.
LowestFree(from, to, occ) ==
    LET free == {q \in from..to : q \notin occ}
    IN IF free = {} THEN NoPort ELSE CHOOSE q \in free : \A r \in free : q <= r

\* C1: a call that follows, with nothing else changing, a call with the same
\* arguments that began with the container not running and returned a handle,
\* issues no `docker run` and returns the same containerName and port.
C1_SecondCallSameHandle ==
    \A p \in Procs :
        (/\ pc[p] = "c_ret"
         /\ g[p].pred # NoCall
         /\ g[p].envQuiet /\ g[p].execOK
         /\ g[p].pred.port = argPort[p])
        => (/\ g[p].runs = 0
            /\ handle[p] # Null
            /\ handle[p].containerName = g[p].pred.handle.containerName
            /\ handle[p].port = g[p].pred.handle.port)

\* C4: past the is-running check, the port handed to `docker run` is never
\* below the preferred port and, the ports being as they were at the call, is
\* the lowest available port at or above it (the preferred port itself when
\* it is available); with no such port the call returns null without a run.
C4_BindsLowestAvailable ==
    \A p \in Procs :
        /\ (pc[p] \in {"c_run", "c_settle"}
            => /\ availablePort[p] >= argPort[p]
               /\ (g[p].envQuiet =>
                     availablePort[p] = LowestFree(argPort[p], MaxPortNum, g[p].occAtStart)))
        /\ (pc[p] = "c_ret" /\ g[p].probed /\ g[p].envQuiet
              /\ LowestFree(argPort[p], MaxPortNum, g[p].occAtStart) = NoPort
            => handle[p] = Null /\ g[p].runs = 0)

C4_FallbackPortChosen ==
    \E p \in Procs :
        /\ pc[p] = "c_run"
        /\ g[p].envQuiet
        /\ availablePort[p] > argPort[p]

\* C5: with the ports unchanged during the scan, findAvailablePort returns the
\* lowest available port of startPort..maxPort, and null exactly when every
\* port of that range is occupied (the empty range included).
C5_FindLowestAvailable ==
    \A p \in Procs :
        (pc[p] \in {"f_ret", "c_found"} /\ g[p].envQuiet)
        => LET range == g[p].startPort..scanMax[p]
           IN /\ foundPort[p] = LowestFree(g[p].startPort, scanMax[p], g[p].occAtStart)
              /\ (foundPort[p] = NoPort <=> range \subseteq g[p].occAtStart)
              /\ (foundPort[p] # NoPort =>
                    /\ foundPort[p] \in range \ g[p].occAtStart
                    /\ \A q \in range : q < foundPort[p] => q \in g[p].occAtStart)

C5_SkippedTwoOccupied ==
    \E p \in Procs :
        /\ pc[p] = "f_ret"
        /\ g[p].envQuiet
        /\ {g[p].startPort, g[p].startPort + 1} \subseteq g[p].occAtStart
        /\ foundPort[p] = g[p].startPort + 2

\* C6: a call that issued `docker run` returns a handle only if the
\* isContainerRunning check made after the run and the settle delay answered
\* true; it returns null when the run command failed or the check answered false.
C6_HandleOnlyIfVerified ==
    \A p \in Procs :
        (pc[p] = "c_ret" /\ g[p].runs > 0)
        => /\ (handle[p] # Null => g[p].postCheck = "true" /\ ~g[p].runFailed)
           /\ (g[p].runFailed \/ g[p].postCheck = "false" => handle[p] = Null)

C6_RunThenNotRunning ==
    \E p \in Procs :
        /\ pc[p] = "c_ret"
        /\ g[p].runs > 0
        /\ ~g[p].runFailed
        /\ g[p].postCheck = "false"
        /\ handle[p] = Null

\* ------------------------------------------------------------------------
\* Properties of the API client.

\* C7: a makeRequest call with retries = r >= 0 whose every attempt failed
\* has made exactly r + 1 attempts when it returns, and returns success = false.
C7_RetryBound ==
    \A p \in Procs :
        (pc[p] = "m_ret" /\ h[p].mrArg >= 0 /\ h[p].allFailed)
        => /\ h[p].attempts = h[p].mrArg + 1
           /\ response[p] # Undefined
           /\ ~response[p].success

C7_ThreeAttemptsForTwoRetries ==
    \E p \in Procs :
        /\ pc[p] = "m_ret"
        /\ h[p].mrArg = DefaultRetries
        /\ h[p].allFailed
        /\ h[p].attempts = 3
        /\ ~response[p].success

InIsUp(p) == \E i \in 1..Len(stack[p]) : stack[p][i] = "isUp"

\* C8: isUp(t), t >= 0, makes at most t + 1 probes, makes none after a probe
\* that succeeded and then returns true, and returns false only with t + 1
\* probes made and all failed; isUp(t), t < 0, throws with no probe made.
C8_IsUpBudget ==
    \A p \in Procs :
        InIsUp(p) =>
           /\ (h[p].upArg < 0 => pc[p] = "u_ret" /\ upResult[p] = "throw" /\ h[p].upProbes = 0)
           /\ (h[p].upArg >= 0 =>
                 /\ h[p].upProbes <= h[p].upArg + 1
                 /\ (h[p].upOK > 0 => pc[p] = "u_ret" /\ h[p].upOK = 1)
                 /\ (pc[p] = "u_ret" =>
                       /\ upResult[p] \in {"true", "false"}
                       /\ (upResult[p] = "true" <=> h[p].upOK = 1)
                       /\ (upResult[p] = "false" => h[p].upProbes = h[p].upArg + 1)))

C8_BudgetExhausted ==
    \E p \in Procs :
        /\ pc[p] = "u_ret"
        /\ h[p].upArg = 2
        /\ h[p].upProbes = 3
        /\ upResult[p] = "false"

\* C9: isUp(0) makes exactly one probe and returns with no sleep at all,
\* true if the probe succeeded and false otherwise.
C9_IsUpZeroNoSleep ==
    \A p \in Procs :
        (pc[p] = "u_ret" /\ h[p].upArg = 0)
        => /\ h[p].upProbes = 1
           /\ h[p].upPollSleeps = 0
           /\ h[p].upRetrySleeps = 0
           /\ (upResult[p] = "true" <=> h[p].upOK = 1)

\* C10: a typed accessor makes one makeRequest call, and when that call's
\* final response has success = false it throws an Error carrying the
\* response's error text, returning no value.
C10_AccessorThrowsOnFailure ==
    \A p \in Procs :
        pc[p] = "a_ret" =>
           /\ h[p].mrCalls = 1
           /\ accResult[p].kind \in {"value", "throw"}
           /\ (~response[p].success =>
                 accResult[p].kind = "throw" /\ accResult[p].error = response[p].error)

C10_FailedAccessorThrew ==
    \E p \in Procs :
        /\ pc[p] = "a_ret"
        /\ Top(p) = "getTasks"
        /\ ~response[p].success
        /\ h[p].attempts = 3
        /\ accResult[p].kind = "throw"

\* C11: for a successful (2xx) response whose decoded body is an object, with
\* or without the entry the accessor reads, or is empty, getAgentConfig,
\* getTask and getTasks return a value and do not throw.
C11_SuccessNeverThrows ==
    \A p \in Procs :
        (/\ pc[p] = "a_ret"
         /\ Top(p) \in {"getAgentConfig", "getTask", "getTasks"}
         /\ response[p].success
         /\ response[p].data.shape \in {"object", "falsy"})
        => accResult[p].kind = "value"

\* C12: the status get_task_status reports for a task, and each status
\* list_tasks reports, is the status entry the remote service sent for it.
C12_StatusFromRemote ==
    \A p \in Procs :
        (pc[p] = "t_ret" /\ ~payload[p].isError)
        => /\ (Tool(p) = "get_task_status" =>
                 payload[p].data.status = th[p].remote.status)
           /\ (Tool(p) = "list_tasks" /\ targ[p].filter_by_status = "undefined" =>
                 payload[p].data.tasks = th[p].remote.tasks)

\* C13: a tool invocation in which the container could not be started, the
\* service did not become ready, or the remote call failed, returns a payload
\* with isError = true.
C13_FailureIsError ==
    \A p \in Procs :
        (pc[p] = "t_ret" /\ (th[p].failed \/ th[p].callFailed))
        => payload[p].isError

\* C14: when create_automation_task returns its success payload with
\* task_id, the task store holds an entry for that id.
C14_StoredAtReturn ==
    \A p \in Procs :
        (/\ pc[p] = "t_ret"
         /\ Tool(p) = "create_automation_task"
         /\ ~payload[p].isError)
        => payload[p].id \in store

\* C15: a get of k resolves to v while less than the ttl has passed since the
\* most recent set(k, v), and to a miss once the ttl has passed since that
\* set, after a del of k, and when k was never set; an entry's expiry is the
\* time of its most recent set plus the ttl.
C15_TtlExpiry ==
    /\ (got # NoGet =>
          got.result = IF /\ got.hist.everSet
                          /\ ~got.hist.deleted
                          /\ got.at - got.hist.setAt < Ttl
                       THEN got.hist.value
                       ELSE "undefined")
    /\ \A k \in StoreKeys :
          entries[k].present => entries[k].expiry = kh[k].setAt + Ttl

C15_MissAtTtl ==
    /\ got # NoGet
    /\ got.hist.everSet
    /\ ~got.hist.deleted
    /\ got.at - got.hist.setAt = Ttl
    /\ got.result = "undefined"

C17_InstalledThenDaemon ==
    \A p \in Procs :
        /\ (g[p].daemonChecked => g[p].installedOK)
        /\ (pc[p] = "d_daemon" => g[p].installedOK)
        /\ (pc[p] = "d_ret" =>
              /\ (~g[p].installedOK => dstatus[p] = NotInstalled /\ ~g[p].daemonChecked)
              /\ (g[p].installedOK /\ ~g[p].daemonOK =>
                    dstatus[p] = NotRunning /\ g[p].daemonChecked)
              /\ (~dstatus[p].error <=> g[p].installedOK /\ g[p].daemonOK))

C17_NotInstalledShortCircuit ==
    \E p \in Procs :
        /\ pc[p] = "d_ret"
        /\ ~g[p].installedOK
        /\ ~g[p].daemonChecked
        /\ dstatus[p] = NotInstalled

\* C18: stopAndRemoveContainer called while no container with the derived
\* name is running returns true and has issued no `docker stop` / `docker rm`.
C18_StopNoOpWhenNotRunning ==
    \A p \in Procs :
        (pc[p] = "s_ret" /\ g[p].notRunAtStart)
        => stopped[p] /\ g[p].runs = 0

\* C19: stopAndRemoveContainer returns true only if the container with the
\* derived name is not running when it returns, whatever the outcomes of the
\* commands it issued.
C19_TrueOnlyIfStopped ==
    \A p \in Procs :
        (pc[p] = "s_ret" /\ stopped[p]) => cstate # "running"

StartingUnseen(p) ==
    /\ Top(p) \in {"create", "find"}
    /\ pc[p] \in {"c_probe", "f_loop", "c_found", "c_run", "c_settle"}

\* C21: nothing serializes the is-running check of createAndRunContainer with
\* the start: while one call is between its check (answered not running) and
\* the end of its start, another call for the same image can still make its
\* own check, so both can issue `docker run`.
C21_CheckNotSerialized ==
    \A p \in Procs :
        (pc[p] = "c_check" /\ \E q \in Procs \ {p} : StartingUnseen(q))
        => ENABLED CheckRunning(p)

C21_BothIssuedRun ==
    \A p \in Procs :
        /\ Top(p) = "create"
        /\ pc[p] \in {"c_settle", "c_ret"}
        /\ g[p].notRunAtStart
        /\ ~g[p].found
        /\ g[p].runs = 1

\* C22: under any interleaving of createAndRunContainer and
\* stopAndRemoveContainer calls for one image, the non-null handles that calls
\* are returning while the container with the derived name is running denote
\* the same name and the same port, the port the container publishes.
C22_OneBackingInstance ==
    \A p, q \in Procs :
        (/\ pc[p] = "c_ret" /\ pc[q] = "c_ret"
         /\ handle[p] # Null /\ handle[q] # Null
         /\ g[p].execOK /\ g[q].execOK
         /\ cstate = "running")
        => /\ handle[p].containerName = handle[q].containerName
           /\ handle[p].port = handle[q].port

\* ------------------------------------------------------------------------
\* More properties of the tool handlers.

\* C23: create_automation_task sends POST /api/tasks only if the agent list
\* it just fetched is non-empty and contains every requested agent; otherwise
\* it returns an error payload, has sent no POST and has started no write to
\* the task store.
C23_PostOnlyForValidAgents ==
    \A p \in Procs :
        Tool(p) = "create_automation_task" =>
           /\ (InApiRequest(p) /\ req[p] = AccessorRequest("createTask")
                => /\ th[p].fetched # {}
                   /\ targ[p].agents \subseteq th[p].fetched)
           /\ (pc[p] = "t_ret" /\ ~(th[p].fetched # {} /\ targ[p].agents \subseteq th[p].fetched)
                => /\ payload[p].isError
                   /\ th[p].posts = 0
                   /\ th[p].sets = 0)

C23_InvalidAgentRejected ==
    \E p \in Procs :
        /\ Tool(p) = "create_automation_task"
        /\ pc[p] = "t_ret"
        /\ th[p].fetched # {}
        /\ ~(targ[p].agents \subseteq th[p].fetched)
        /\ payload[p] = Payload(TRUE, "Invalid agents", "undefined")
        /\ th[p].posts = 0

\* C24: no availability result is kept between invocations.  A flow between
\* two invocations holds no client, no isUp result and no handle, and an
\* invocation has an API request in progress only after a
\* requireApiClientAndServerReady call of its own (one per helper) in which
\* the container check returned a handle and isUp returned true, whether or
\* not the invocation before failed for want of the service.
C24_NothingKeptBetweenInvocations ==
    \A p \in Procs :
        /\ (pc[p] = "idle" =>
              /\ apiClient[p] = NoPort
              /\ upResult[p] = "none"
              /\ handle[p] = Null
              /\ th[p].requires = 0)
        /\ (InApiRequest(p) =>
              /\ th[p].requires = (IF req[p] = AccessorRequest("createTask") THEN 2 ELSE 1)
              /\ th[p].createOK
              /\ th[p].upTrue
              /\ ~th[p].failed)

C24_RequestAfterFailedInvocation ==
    \E p \in Procs :
        /\ th[p].prevFailed
        /\ InApiRequest(p)
        /\ pc[p] = "m_send"
        /\ th[p].upTrue

\* ------------------------------------------------------------------------
\* Properties of the log buffer.

\* C25: get_logs returns exactly the lines recorded since the tool call
\* before it began (a get_logs call included), none recorded earlier, and
\* total is the number of lines returned.
C25_LogsSinceLastCall ==
    logsPayload # NoLogs =>
        /\ logsPayload.total = Len(logsPayload.logs)
        /\ \A i \in 1..Len(logsPayload.logs) :
              logsPayload.logs[i] = logsPayload.prevCallAt + i

\* ------------------------------------------------------------------------
\* Properties of readEnvValue.

\* C26: readEnvValue returns the parsed value of the key whenever the parsed
\* file has the key, the empty string included, and the fallback when it has
\* not; it throws "File not found" without reading when the file does not
\* exist, and lets the error of the read or of the parse through.
C26_ReadEnvValue ==
    envCall # NoEnvCall =>
        LET file == envCall.file
            result == envCall.result
        IN /\ (file.kind = "missing" =>
                 result.kind = "throw" /\ result.error = "File not found" /\ ~result.read)
           /\ (file.kind = "unreadable" => result.kind = "throw" /\ result.error = "read error")
           /\ (file.kind = "unparsable" => result.kind = "throw" /\ result.error = "parse error")
           /\ (file.kind = "parsed" =>
                 /\ result.kind = "return"
                 /\ (envCall.key \in DOMAIN file.parsed =>
                       result.value = Str(file.parsed[envCall.key]))
                 /\ (envCall.key \notin DOMAIN file.parsed =>
                       result.value = envCall.fallback))

C26_EmptyValueReturned ==
    /\ envCall # NoEnvCall
    /\ envCall.file.kind = "parsed"
    /\ envCall.key \in DOMAIN envCall.file.parsed
    /\ envCall.file.parsed[envCall.key] = ""
    /\ envCall.fallback = Str("d")
    /\ envCall.result = EnvReturned(Str(""))

\* ------------------------------------------------------------------------
\* More properties of the container orchestration and of the API client.

\* C27: a non-null handle createAndRunContainer returns while the container
\* with the derived name is running carries the host port that container
\* publishes.
C27_HandlePortIsBoundPort ==
    \A p \in Procs :
        (pc[p] = "c_ret" /\ handle[p] # Null /\ cstate = "running")
        => handle[p].port = boundPort

\* C28: makeRequest returns the response of the first attempt that is 2xx
\* with a non-empty body and makes no attempt after it; with no such attempt
\* it returns the response of its last attempt, and { success: false } when
\* it made none.
C28_ReturnsFirstGoodOrLast ==
    \A p \in Procs :
        /\ h[p].afterGood = 0
        /\ (pc[p] = "m_ret" =>
              response[p] = IF h[p].good # Undefined THEN h[p].good
                            ELSE IF h[p].attempts = 0 THEN SyntheticFailure
                            ELSE h[p].last)

C28_GoodOnSecondAttempt ==
    \E p \in Procs :
        /\ pc[p] = "m_ret"
        /\ h[p].attempts = 2
        /\ h[p].good # Undefined
        /\ response[p] = h[p].good
        /\ response[p].data = ObjectData(TRUE)

\* C29: a makeRequest call that made n >= 1 attempts has waited retryInterval
\* n - 1 times when it returns: between attempts only, not after the last.
C29_SleepsBetweenAttempts ==
    \A p \in Procs :
        (pc[p] = "m_ret" /\ h[p].attempts >= 1)
        => h[p].sleeps = h[p].attempts - 1

\* C30: one createTask call sends at most one POST /api/tasks, whatever the
\* outcome of that request.
C30_CreateTaskPostsOnce ==
    \A p \in Procs :
        req[p] = AccessorRequest("createTask") => h[p].attempts <= 1

C30_FailedPostNotRetried ==
    \E p \in Procs :
        /\ pc[p] = "a_ret"
        /\ Top(p) = "createTask"
        /\ ~response[p].success
        /\ h[p].attempts = 1
        /\ accResult[p].kind = "throw"

\* ------------------------------------------------------------------------
\* Properties of the last sitting: task store, logs, shutdown, names.

\* C31: create_automation_task starts a write to the task store only after
\* the remote service answered the create with a task id; when the container
\* was not started, the service was not ready, the remote call failed or the
\* response held no id, it returns an error payload and has started no write.
C31_StoreWrittenOnlyWithId ==
    \A p \in Procs :
        Tool(p) = "create_automation_task" =>
           /\ th[p].sets <= 1
           /\ (th[p].sets = 1 =>
                 /\ pc[p] = "t_ret"
                 /\ ~th[p].failed /\ ~th[p].callFailed
                 /\ th[p].posts = 1
                 /\ th[p].remote.id \in TaskIds
                 /\ payload[p].id = th[p].remote.id)
           /\ (pc[p] = "t_ret"
                /\ (th[p].failed \/ th[p].callFailed \/ th[p].remote.id = "undefined")
                => payload[p].isError /\ th[p].sets = 0)

C31_FailedCreateWroteNothing ==
    \E p \in Procs :
        /\ Tool(p) = "create_automation_task"
        /\ pc[p] = "t_ret"
        /\ phase[p] = "create"
        /\ th[p].posts = 1
        /\ th[p].callFailed
        /\ payload[p] = Payload(TRUE, "No task ID was returned", "undefined")
        /\ th[p].sets = 0

\* C32: the log lines in the error payload of a tool invocation are exactly
\* the lines that invocation logged since it started, whatever another
\* invocation running interleaved with it did.
C32_PayloadLogsAreOwn ==
    \A p \in Procs :
        logInv[p].returned => logInv[p].embedded = logInv[p].mine

\* C33: every set, get or del forwarded to the store finds the storage.init
\* of the constructor completed successfully.
C33_OpsAfterInit ==
    \A i \in 1..Len(opLog) : opLog[i].init = "ok"

\* C34: a SIGTERM or SIGINT handler calls stopAndRemoveContainer and calls
\* process.exit(0) only once that call has returned: no exit while the call
\* is at one of its awaits, and an exit whatever the call returned.
C34_ExitAfterStop ==
    \A p \in Procs :
        /\ (Tool(p) \in Signals /\ pc[p] \in {"s_check", "s_stop", "s_verify"}
            => ~procExit.done)
        /\ (Tool(p) \in Signals /\ pc[p] = "s_ret" => ENABLED SignalExit(p))
        /\ (procExit.done =>
              /\ procExit.code = 0
              /\ procExit.signal \in Signals
              /\ procExit.stopResult \in BOOLEAN)

C34_ExitedAfterFailedStop ==
    /\ procExit.done
    /\ ~procExit.stopResult
    /\ cstate = "running"

\* C35: when the isContainerRunning check of createAndRunContainer answers
\* true (and nothing changed since), a container whose name is exactly the
\* derived name is running; a running container whose name only contains the
\* derived name does not make the check answer true.
C35_FoundMeansExactName ==
    \A p \in Procs :
        (pc[p] = "c_ret" /\ g[p].found /\ g[p].envQuiet) => cstate = "running"

\* C37: list_tasks with filter_by_status = s returns exactly the tasks of the
\* remote list whose status is s, in the remote order, and the whole remote
\* list without a filter; total is their number; the task store is not
\* written.
C37_ListTasksFiltered ==
    \A p \in Procs :
        (pc[p] = "t_ret" /\ Tool(p) = "list_tasks" /\ ~payload[p].isError)
        => LET s == targ[p].filter_by_status
               expected == IF s = "undefined" THEN th[p].remote.tasks
                           ELSE SelectSeq(th[p].remote.tasks, LAMBDA status : status = s)
           IN /\ payload[p].data.tasks = expected
              /\ payload[p].total = Len(expected)
              /\ th[p].sets = 0

\* The image reference up to its first ':' (all of it when it has none).
PrefixLen(image) ==
    IF \E i \in 1..Len(image) : image[i] = ":"
    THEN (CHOOSE i \in 1..Len(image) :
              image[i] = ":" /\ \A j \in 1..(i - 1) : image[j] # ":") - 1
    ELSE Len(image)

ExpectedName(image) ==
    [i \in 1..(PrefixLen(image) + 1) |->
        IF i = PrefixLen(image) + 1 THEN "-mcp-container"
        ELSE IF image[i] = "/" THEN "-" ELSE image[i]]

C38_EveryRequestSettles ==
    \A id \in RequestIds : (promise[id] = "pending") ~> (promise[id] # "pending")

====
